---- MODULE Spec2Model ----
(***************************************************************************)
(* Appointment scheduling and conflict resolution of the appointment       *)
(* booking backend: the appointment, service and staff controllers over    *)
(* the relational store, one step per awaited database call, and the       *)
(* tenant guard of lib/prismaWithTenant.                                   *)
(***************************************************************************)
EXTENDS Integers, Sequences, FiniteSets, TLC

VARIABLES
    now,            \* wall clock (new Date()), milliseconds since the epoch
    services,       \* Service table: id -> row
    staff,          \* Staff table: id -> row
    users,          \* User table: id -> row
    staffService,   \* StaffService table: set of <<staffId, serviceId>>
    availability,   \* Availability table: set of rows
    timeOff,        \* TimeOff table: sequence of rows (query order)
    appointments,   \* Appointment table: sequence of rows, id = index
    notifications,  \* Notification table: sequence of rows
    procs,          \* requests: process -> handler position and locals, or
                    \* the response it has just sent
    middlewares,    \* the prisma client's $use list: the tenantId of each guard
    params,         \* the client call on its way to the query engine, if any
    tenants,        \* Tenant table: set of ids
    tenantUsers,    \* TenantUser table: set of [tenantId, userId, role]
    cookies         \* process -> the access_token cookie of its user agent, if any

authVars == <<tenants, tenantUsers, cookies>>
vars == <<now, services, staff, users, staffService, availability, timeOff,
          appointments, notifications, procs, middlewares, params, authVars>>

(***************************************************************************)
(* Bounds of the model.                                                    *)
(***************************************************************************)
MaxSlot == 3
MaxAppts == 2

(***************************************************************************)
(* Time. Timestamps are milliseconds since 1970-01-01T00:00Z, a Thursday.  *)
(***************************************************************************)
MsPerMinute == 60000
MinutesPerHour == 60
MsPerHour == MinutesPerHour * MsPerMinute
MsPerDay == 24 * MsPerHour

\* The model's clock grid: six-hour slots starting Saturday 1970-01-03T00:00Z,
\* so that the grid covers a Saturday (6) and a Sunday (0).
SlotMs == 6 * MsPerHour
TimeBase == 2 * MsPerDay
SlotTime(s) == TimeBase + s * SlotMs
Times == {SlotTime(s) : s \in 0..MaxSlot}

getUTCDay(t) == ((t \div MsPerDay) + 4) % 7
getUTCHours(t) == (t % MsPerDay) \div MsPerHour
getUTCMinutes(t) == (t % MsPerHour) \div MsPerMinute

(***************************************************************************)
(* Optional values: null is the empty sequence, a value v is <<v>>.        *)
(***************************************************************************)
None == << >>
Some(v) == <<v>>
IsNone(o) == Len(o) = 0
Val(o) == o[1]

Undefined == "undefined"
Tenants == {"t1", "t2"}

ActiveStatuses == {"PENDING", "CONFIRMED"}
AppointmentStatus ==
    {"PENDING", "CONFIRMED", "CANCELLED", "COMPLETED", "NO_SHOW", "RESCHEDULED"}

(***************************************************************************)
(* A where-clause field set to undefined is no filter at all.              *)
(***************************************************************************)
TenantMatches(rowTenant, filterTenant) ==
    filterTenant = Undefined \/ rowTenant = filterTenant

(***************************************************************************)
(* "HH:MM" strings: the sequence of pieces split(":") yields, a piece      *)
(* being decimal digits, other text, or empty (the empty string is one     *)
(* empty piece).  A JavaScript number is [nan |-> TRUE] or                 *)
(* [nan |-> FALSE, v |-> n].                                               *)
(***************************************************************************)
Digits(n) == [kind |-> "digits", v |-> n]
Letters == [kind |-> "letters", v |-> 0]
Blank == [kind |-> "blank", v |-> 0]
HHMM(h, m) == Some(<<Digits(h), Digits(m)>>)
EmptyString == Some(<<Blank>>)

Num(n) == [nan |-> FALSE, v |-> n]
NaN == [nan |-> TRUE, v |-> 0]
\* Number(""): 0; Number of digits: their value; of other text: NaN.
Number(x) == IF x.kind = "letters" THEN NaN ELSE Num(x.v)
\* !text: null or the empty string.
Falsy(text) == IsNone(text) \/ text = EmptyString

\* A variant that answers null for every text that is not two pieces of
\* digits, hours below 24 and minutes below 60.
hhmmToMinutesStrict(hhmm) ==
    IF Falsy(hhmm) THEN None
    ELSE LET pieces == Val(hhmm)
         IN  IF /\ Len(pieces) = 2
                /\ pieces[1].kind = "digits" /\ pieces[1].v < 24
                /\ pieces[2].kind = "digits" /\ pieces[2].v < 60
             THEN Some(Num(pieces[1].v * MinutesPerHour + pieces[2].v))
             ELSE None

\* null, or the number h * 60 + m: NaN when the text has one piece only
\* (m is undefined, which Number.isNaN lets through).
hhmmToMinutes(hhmm) ==
    IF Falsy(hhmm) THEN None
    ELSE LET pieces == Val(hhmm)
             h == Number(pieces[1])
         IN  IF Len(pieces) < 2
             THEN IF h.nan THEN None ELSE Some(NaN)
             ELSE LET m == Number(pieces[2])
                  IN  IF h.nan \/ m.nan THEN None
                      ELSE Some(Num(h.v * MinutesPerHour + m.v))

isWithinRecurringAvailability(av, startDate, endDate) ==
    IF \/ IsNone(av.dayOfWeek) \/ Val(av.dayOfWeek) = 0
       \/ Falsy(av.startTime) \/ Falsy(av.endTime)
    THEN FALSE
    ELSE IF getUTCDay(startDate) # Val(av.dayOfWeek) THEN FALSE
    ELSE LET apptStartMinutes ==
                 getUTCHours(startDate) * MinutesPerHour + getUTCMinutes(startDate)
             apptEndMinutes ==
                 getUTCHours(endDate) * MinutesPerHour + getUTCMinutes(endDate)
             avStart == hhmmToMinutes(av.startTime)
             avEnd == hhmmToMinutes(av.endTime)
         IN  IF IsNone(avStart) \/ IsNone(avEnd) THEN FALSE
             \* a comparison with NaN is false
             ELSE /\ ~Val(avStart).nan /\ apptStartMinutes >= Val(avStart).v
                  /\ ~Val(avEnd).nan /\ apptEndMinutes <= Val(avEnd).v

\* A variant with a strict lower and upper bound.
isStrictlyWithinOneOffAvailability(av, startDate, endDate) ==
    IF IsNone(av.startDate) \/ IsNone(av.endDate) THEN FALSE
    ELSE startDate > Val(av.startDate) /\ endDate < Val(av.endDate)

isWithinOneOffAvailability(av, startDate, endDate) ==
    IF IsNone(av.startDate) \/ IsNone(av.endDate) THEN FALSE
    ELSE startDate >= Val(av.startDate) /\ endDate <= Val(av.endDate)

AvailabilityCovers(av, startDate, endDate) ==
    IF av.type = "ONE_OFF" THEN isWithinOneOffAvailability(av, startDate, endDate)
    ELSE IF av.type = "RECURRING"
         THEN isWithinRecurringAvailability(av, startDate, endDate)
    ELSE FALSE

(***************************************************************************)
(* Responses: the HTTP status and the message of ApiError / ApiResponse.   *)
(***************************************************************************)
Result(status, msg, detail) == [status |-> status, msg |-> msg, detail |-> detail]
Pass == Result(0, "", "")
Fail(status, msg) == Result(status, msg, "")
Ok(status, msg) == Result(status, msg, "")
Failed(r) == r.status # 0
\* rows: the tenantId of every row the payload carries.
ReplyRows(op, r, rows) ==
    [pc |-> "done", op |-> op, status |-> r.status, msg |-> r.msg,
     detail |-> r.detail, rows |-> rows]
Reply(op, r) == ReplyRows(op, r, {})

Idle == [pc |-> "idle"]
Procs == {1, 2}

(***************************************************************************)
(* Request inputs. An id the body lacks is "", a date field is missing,    *)
(* unparsable (new Date(x) is NaN) or a timestamp.                         *)
(***************************************************************************)
MissingDate == [k |-> "missing", t |-> 0]
InvalidDate == [k |-> "invalid", t |-> 0]
DateAt(t) == [k |-> "date", t |-> t]
Present(d) == d.k # "missing"

\* A variant that lets every authenticated caller through.
requireAuthenticated(user, roles) == Pass

requireTenantRole(user, roles) ==
    IF user.role \notin roles /\ user.tenantRole \notin roles
    THEN Fail(403, "Forbidden - insufficient permissions")
    ELSE Pass

(***************************************************************************)
(* Queries.                                                                *)
(***************************************************************************)
\* A variant with lt and gt in place of lte and gte.
TimeOffOverlapsStrictly(tf, startDate, endDate) ==
    tf.start < endDate /\ tf.end > startDate

\* timeOff.findMany({ staffId, tenantId, start <= endDate, end >= startDate })
TimeOffOverlaps(tf, startDate, endDate) ==
    tf.start <= endDate /\ tf.end >= startDate

OverlappingTimeOffs(tenantId, staffId, startDate, endDate) ==
    SelectSeq(timeOff, LAMBDA tf :
        /\ tf.staffId = staffId
        /\ TenantMatches(tf.tenantId, tenantId)
        /\ TimeOffOverlaps(tf, startDate, endDate))

\* availability.findMany({ staffId, tenantId, deletedAt: null })
StaffAvailabilities(tenantId, staffId) ==
    {av \in availability :
        /\ av.staffId = staffId
        /\ TenantMatches(av.tenantId, tenantId)
        /\ IsNone(av.deletedAt)}

\* A variant that skips the time-off lookup and tests the availability only.
validateStaffAvailabilityOnly(tenantId, staffId, startDate, endDate) ==
    LET availabilities == StaffAvailabilities(tenantId, staffId)
    IN  IF availabilities = {} THEN Pass
        ELSE IF \E av \in availabilities : AvailabilityCovers(av, startDate, endDate)
             THEN Pass
        ELSE Fail(409, "Requested time is outside staff availability")

\* A variant that tests the availability before it looks at the time off.
validateAvailabilityBeforeTimeOff(tenantId, staffId, startDate, endDate) ==
    LET availabilities == StaffAvailabilities(tenantId, staffId)
        timeOffs == OverlappingTimeOffs(tenantId, staffId, startDate, endDate)
    IN  IF /\ availabilities # {}
           /\ ~\E av \in availabilities : AvailabilityCovers(av, startDate, endDate)
        THEN Fail(409, "Requested time is outside staff availability")
        ELSE IF Len(timeOffs) > 0
        THEN LET tf == timeOffs[1]
                 reason == IF tf.reason = "" THEN "Time off" ELSE tf.reason
             IN  Result(409, "Staff is on time off during requested time", reason)
        ELSE Pass

validateStaffAvailabilityAndTimeOff(tenantId, staffId, startDate, endDate) ==
    LET availabilities == StaffAvailabilities(tenantId, staffId)
        timeOffs == OverlappingTimeOffs(tenantId, staffId, startDate, endDate)
    IN  IF Len(timeOffs) > 0
        THEN LET tf == timeOffs[1]
                 reason == IF tf.reason = "" THEN "Time off" ELSE tf.reason
             IN  Result(409, "Staff is on time off during requested time", reason)
        ELSE IF availabilities = {} THEN Pass
        ELSE IF \E av \in availabilities : AvailabilityCovers(av, startDate, endDate)
             THEN Pass
        ELSE Fail(409, "Requested time is outside staff availability")

\* A variant with lte and gte in place of lt and gt.
IntervalsTouchOrOverlap(a, startDate, endDate) ==
    a.start <= endDate /\ a.end >= startDate

\* { start: { lt: endDate }, end: { gt: startDate } }
IntervalsOverlap(a, startDate, endDate) ==
    a.start < endDate /\ a.end > startDate

\* A variant whose where clause has no id: { not } term.
staffConflictIncludingSelf(tenantId, staffId, startDate, endDate, exceptIds) ==
    \E i \in DOMAIN appointments :
        /\ TenantMatches(appointments[i].tenantId, tenantId)
        /\ appointments[i].staffId = staffId
        /\ appointments[i].status \in ActiveStatuses
        /\ IntervalsOverlap(appointments[i], startDate, endDate)

\* appointment.findFirst({ tenantId, staffId, id: { not }, status in, overlap })
staffConflict(tenantId, staffId, startDate, endDate, exceptIds) ==
    \E i \in DOMAIN appointments :
        /\ i \notin exceptIds
        /\ TenantMatches(appointments[i].tenantId, tenantId)
        /\ appointments[i].staffId = staffId
        /\ appointments[i].status \in ActiveStatuses
        /\ IntervalsOverlap(appointments[i], startDate, endDate)

clientConflict(tenantId, clientId, startDate, endDate, exceptIds) ==
    \E i \in DOMAIN appointments :
        /\ i \notin exceptIds
        /\ TenantMatches(appointments[i].tenantId, tenantId)
        /\ appointments[i].clientId = clientId
        /\ appointments[i].status \in ActiveStatuses
        /\ IntervalsOverlap(appointments[i], startDate, endDate)

\* A variant that looks the service up by id and tenant alone.
ServiceFoundAnyState(id, tenantId) ==
    /\ id \in DOMAIN services
    /\ TenantMatches(services[id].tenantId, tenantId)

ServiceFound(id, tenantId) ==
    /\ id \in DOMAIN services
    /\ TenantMatches(services[id].tenantId, tenantId)
    /\ services[id].active
    /\ IsNone(services[id].deletedAt)

StaffFound(id, tenantId) ==
    /\ id \in DOMAIN staff
    /\ TenantMatches(staff[id].tenantId, tenantId)
    /\ IsNone(staff[id].deletedAt)

ClientFound(id) ==
    /\ id \in DOMAIN users
    /\ IsNone(users[id].deletedAt)

DurationMatches(startDate, endDate, duration) ==
    startDate + duration * MsPerMinute = endDate

(***************************************************************************)
(* A handler's step ends the request with a failure, or moves on.          *)
(***************************************************************************)
Continue(p, op, r, next) ==
    procs' = [procs EXCEPT ![p] = IF Failed(r) THEN Reply(op, r) ELSE next]

InFlightCreates ==
    Cardinality({q \in Procs : /\ procs[q].pc \notin {"idle", "done"}
                                /\ procs[q].op = "createAppointment"})

(***************************************************************************)
(* createAppointment                                                       *)
(***************************************************************************)
\* A variant without the comparison against the clock.
createValidateAnyStart(body) ==
    IF \/ body.serviceId = "" \/ body.staffId = "" \/ body.clientId = ""
       \/ ~Present(body.start) \/ ~Present(body.end)
    THEN Fail(400, "Missing required fields: serviceId, staffId, clientId, start, end")
    ELSE IF body.start.k = "invalid" \/ body.end.k = "invalid"
         THEN Fail(400, "Invalid start or end date")
    ELSE IF body.end.t <= body.start.t THEN Fail(400, "end must be after start")
    ELSE Pass

createValidate(body) ==
    IF \/ body.serviceId = "" \/ body.staffId = "" \/ body.clientId = ""
       \/ ~Present(body.start) \/ ~Present(body.end)
    THEN Fail(400, "Missing required fields: serviceId, staffId, clientId, start, end")
    ELSE IF body.start.k = "invalid" \/ body.end.k = "invalid"
         THEN Fail(400, "Invalid start or end date")
    ELSE IF body.end.t <= body.start.t THEN Fail(400, "end must be after start")
    ELSE IF body.start.t < now THEN Fail(400, "Cannot create appointments in the past")
    ELSE Pass

createLoad(tenantId, body) ==
    IF ~ServiceFound(body.serviceId, tenantId) THEN Fail(404, "Service not found")
    ELSE IF ~StaffFound(body.staffId, tenantId) THEN Fail(404, "Staff not found")
    ELSE IF ~ClientFound(body.clientId) THEN Fail(404, "Client not found")
    ELSE Pass

\* Lines 115-146: validation, then service, staff and client loaded together.
CreateAppointmentLoad(p, tenantId, body) ==
    /\ procs[p].pc = "idle"
    /\ Len(appointments) + InFlightCreates < MaxAppts
    /\ LET v == createValidate(body)
           r == IF Failed(v) THEN v ELSE createLoad(tenantId, body)
       IN  Continue(p, "createAppointment", r,
               [pc |-> "assigned", op |-> "createAppointment",
                tenantId |-> tenantId, serviceId |-> body.serviceId,
                staffId |-> body.staffId, clientId |-> body.clientId,
                startDate |-> body.start.t, endDate |-> body.end.t,
                notes |-> body.notes,
                service |-> IF Failed(r) THEN None ELSE Some(services[body.serviceId])])
    /\ UNCHANGED <<authVars, middlewares, params,
                   now, services, staff, users, staffService, availability,
                   timeOff, appointments, notifications>>

\* A variant that compares the duration before it looks for the link.
createAssignedDurationFirst(q) ==
    IF ~DurationMatches(q.startDate, q.endDate, Val(q.service).duration)
    THEN Fail(400, "End time must be exactly duration minutes after start")
    ELSE IF <<q.staffId, q.serviceId>> \notin staffService
         THEN Fail(400, "Selected staff does not provide this service")
    ELSE Pass

createAssigned(q) ==
    IF <<q.staffId, q.serviceId>> \notin staffService
    THEN Fail(400, "Selected staff does not provide this service")
    ELSE IF ~DurationMatches(q.startDate, q.endDate, Val(q.service).duration)
         THEN Fail(400, "End time must be exactly duration minutes after start")
    ELSE Pass

\* Lines 149-158: the staff-service link, then the duration of the loaded service.
CreateAppointmentAssigned(p) ==
    /\ procs[p].pc = "assigned"
    /\ procs[p].op = "createAppointment"
    /\ Continue(p, "createAppointment", createAssigned(procs[p]),
                [procs[p] EXCEPT !.pc = "avail"])
    /\ UNCHANGED <<authVars, middlewares, params,
                   now, services, staff, users, staffService, availability,
                   timeOff, appointments, notifications>>

\* Line 161.
CreateAppointmentAvailability(p) ==
    /\ procs[p].pc = "avail"
    /\ procs[p].op = "createAppointment"
    /\ LET q == procs[p]
       IN  Continue(p, "createAppointment",
               validateStaffAvailabilityAndTimeOff(q.tenantId, q.staffId,
                                                   q.startDate, q.endDate),
               [q EXCEPT !.pc = "staffConflict"])
    /\ UNCHANGED <<authVars, middlewares, params,
                   now, services, staff, users, staffService, availability,
                   timeOff, appointments, notifications>>

\* A variant that holds the query back until no other process has a request.
CreateAppointmentStaffConflictWhenAlone(p) ==
    /\ procs[p].pc = "staffConflict"
    /\ procs[p].op = "createAppointment"
    /\ \A o \in Procs \ {p} : procs[o].pc = "idle"
    /\ LET q == procs[p]
       IN  Continue(p, "createAppointment",
               IF staffConflict(q.tenantId, q.staffId, q.startDate, q.endDate, {})
               THEN Fail(409, "Staff already booked for this time slot")
               ELSE Pass,
               [q EXCEPT !.pc = "clientConflict"])
    /\ UNCHANGED <<authVars, middlewares, params,
                   now, services, staff, users, staffService, availability,
                   timeOff, appointments, notifications>>

\* Lines 164-174.
CreateAppointmentStaffConflict(p) ==
    /\ procs[p].pc = "staffConflict"
    /\ procs[p].op = "createAppointment"
    /\ LET q == procs[p]
       IN  Continue(p, "createAppointment",
               IF staffConflict(q.tenantId, q.staffId, q.startDate, q.endDate, {})
               THEN Fail(409, "Staff already booked for this time slot")
               ELSE Pass,
               [q EXCEPT !.pc = "clientConflict"])
    /\ UNCHANGED <<authVars, middlewares, params,
                   now, services, staff, users, staffService, availability,
                   timeOff, appointments, notifications>>

\* Lines 177-187.
CreateAppointmentClientConflict(p) ==
    /\ procs[p].pc = "clientConflict"
    /\ procs[p].op = "createAppointment"
    /\ LET q == procs[p]
       IN  Continue(p, "createAppointment",
               IF clientConflict(q.tenantId, q.clientId, q.startDate, q.endDate, {})
               THEN Fail(409, "Client already has an appointment in this time slot")
               ELSE Pass,
               [q EXCEPT !.pc = "tx"])
    /\ UNCHANGED <<authVars, middlewares, params,
                   now, services, staff, users, staffService, availability,
                   timeOff, appointments, notifications>>

\* A variant that prices the booking with the column defaults, not the service.
newAppointmentDefaultPrice(q) ==
    [tenantId |-> q.tenantId, serviceId |-> q.serviceId, staffId |-> q.staffId,
     clientId |-> q.clientId, start |-> q.startDate, end |-> q.endDate,
     price |-> 0, currency |-> "USD",
     notes |-> q.notes, status |-> "PENDING", canceledAt |-> None]

newAppointment(q) ==
    [tenantId |-> q.tenantId, serviceId |-> q.serviceId, staffId |-> q.staffId,
     clientId |-> q.clientId, start |-> q.startDate, end |-> q.endDate,
     price |-> Val(q.service).price, currency |-> Val(q.service).currency,
     notes |-> q.notes, status |-> "PENDING", canceledAt |-> None]

bookingNotification(q, apptId) ==
    [tenantId |-> q.tenantId, userId |-> q.clientId, type |-> "booking_created",
     channel |-> "email", appointmentId |-> apptId, status |-> "queued"]

\* A variant without the transaction: the appointment insert stays when the
\* notification insert throws.
insertsWithoutTransaction(q, failAt) ==
    LET apptId == Len(appointments) + 1
    IN  IF failAt = "none"
        THEN [appointments |-> Append(appointments, newAppointment(q)),
              notifications |-> Append(notifications, bookingNotification(q, apptId)),
              committed |-> TRUE]
        ELSE IF failAt = "notification"
        THEN [appointments |-> Append(appointments, newAppointment(q)),
              notifications |-> notifications, committed |-> FALSE]
        ELSE [appointments |-> appointments, notifications |-> notifications,
              committed |-> FALSE]

\* prisma.$transaction: both inserts, or, when the insert named by failAt
\* throws, neither.
transaction(q, failAt) ==
    LET apptId == Len(appointments) + 1
    IN  IF failAt = "none"
        THEN [appointments |-> Append(appointments, newAppointment(q)),
              notifications |-> Append(notifications, bookingNotification(q, apptId)),
              committed |-> TRUE]
        ELSE [appointments |-> appointments, notifications |-> notifications,
              committed |-> FALSE]

\* Lines 190-223.
CreateAppointmentTransaction(p, failAt) ==
    /\ procs[p].pc = "tx"
    /\ procs[p].op = "createAppointment"
    /\ LET t == transaction(procs[p], failAt)
       IN  /\ appointments' = t.appointments
           /\ notifications' = t.notifications
           /\ procs' = [procs EXCEPT ![p] =
                  IF t.committed
                  THEN ReplyRows("createAppointment",
                           Ok(201, "Appointment created successfully"),
                           {procs[p].tenantId, Val(procs[p].service).tenantId,
                            staff[procs[p].staffId].tenantId})
                  ELSE Reply("createAppointment", Fail(500, "Internal Server Error"))]
    /\ UNCHANGED <<authVars, middlewares, params,
                   now, services, staff, users, staffService, availability, timeOff>>

(***************************************************************************)
(* updateAppointment (status, reschedule, notes)                           *)
(***************************************************************************)
AppointmentFound(id, tenantId) ==
    /\ id \in DOMAIN appointments
    /\ TenantMatches(appointments[id].tenantId, tenantId)

updateValidate(body) ==
    IF ~Present(body.start) /\ ~Present(body.end) THEN Pass
    ELSE IF ~Present(body.start) \/ ~Present(body.end)
         THEN Fail(400, "Both start and end required for reschedule")
    ELSE IF body.start.k = "invalid" \/ body.end.k = "invalid"
         THEN Fail(400, "Invalid start or end")
    ELSE IF body.end.t <= body.start.t THEN Fail(400, "end must be after start")
    ELSE IF body.start.t < now THEN Fail(400, "Cannot reschedule to the past")
    ELSE Pass

updateFind(user, tenantId, id, body) ==
    LET role == requireTenantRole(user, {"OWNER", "ADMIN", "STAFF"})
    IN  IF Failed(role) THEN role
        ELSE IF ~AppointmentFound(id, tenantId) THEN Fail(404, "Appointment not found")
        ELSE updateValidate(body)

\* Lines 295-313: role check, the appointment, the new interval's validation.
UpdateAppointmentFind(p, user, tenantId, id, body) ==
    /\ procs[p].pc = "idle"
    /\ LET r == updateFind(user, tenantId, id, body)
           reschedule == Present(body.start) \/ Present(body.end)
       IN  Continue(p, "updateAppointment", r,
               [pc |-> IF reschedule THEN "service" ELSE "write",
                op |-> "updateAppointment", tenantId |-> tenantId, id |-> id,
                status |-> body.status, notes |-> body.notes,
                reschedule |-> reschedule,
                serviceId |-> IF Failed(r) THEN "" ELSE appointments[id].serviceId,
                staffId |-> IF Failed(r) THEN "" ELSE appointments[id].staffId,
                clientId |-> IF Failed(r) THEN "" ELSE appointments[id].clientId,
                startDate |-> body.start.t, endDate |-> body.end.t])
    /\ UNCHANGED <<authVars, middlewares, params,
                   now, services, staff, users, staffService, availability,
                   timeOff, appointments, notifications>>

updateService_duration(q) ==
    IF q.serviceId \notin DOMAIN services THEN Fail(500, "Associated service not found")
    ELSE IF ~DurationMatches(q.startDate, q.endDate, services[q.serviceId].duration)
         THEN Fail(400, "Rescheduled end must be exactly duration minutes after start")
    ELSE Pass

\* Lines 316-321: the service of the appointment, by id alone.
UpdateAppointmentService(p) ==
    /\ procs[p].pc = "service"
    /\ procs[p].op = "updateAppointment"
    /\ Continue(p, "updateAppointment", updateService_duration(procs[p]),
                [procs[p] EXCEPT !.pc = "avail"])
    /\ UNCHANGED <<authVars, middlewares, params,
                   now, services, staff, users, staffService, availability,
                   timeOff, appointments, notifications>>

\* Line 324.
UpdateAppointmentAvailability(p) ==
    /\ procs[p].pc = "avail"
    /\ procs[p].op = "updateAppointment"
    /\ LET q == procs[p]
       IN  Continue(p, "updateAppointment",
               validateStaffAvailabilityAndTimeOff(q.tenantId, q.staffId,
                                                   q.startDate, q.endDate),
               [q EXCEPT !.pc = "staffConflict"])
    /\ UNCHANGED <<authVars, middlewares, params,
                   now, services, staff, users, staffService, availability,
                   timeOff, appointments, notifications>>

\* A variant that writes the interval of the request even when it has none.
updatedAppointmentWithInterval(a, q) ==
    [a EXCEPT !.status = IF IsNone(q.status) THEN @ ELSE Val(q.status),
              !.start = q.startDate,
              !.end = q.endDate,
              !.notes = IF IsNone(q.notes) THEN @ ELSE q.notes]

\* appointment.update({ where: { id }, data }): an undefined field is left alone.
updatedAppointment(a, q) ==
    [a EXCEPT !.status = IF IsNone(q.status) THEN @ ELSE Val(q.status),
              !.start = IF q.reschedule THEN q.startDate ELSE @,
              !.end = IF q.reschedule THEN q.endDate ELSE @,
              !.notes = IF IsNone(q.notes) THEN @ ELSE q.notes]

\* A variant that writes the row first and looks for the staff conflict after.
UpdateAppointmentWriteThenStaffConflict(p) ==
    /\ procs[p].pc = "staffConflict"
    /\ procs[p].op = "updateAppointment"
    /\ LET q == procs[p]
       IN  /\ appointments' = [appointments EXCEPT ![q.id] = updatedAppointment(@, q)]
           /\ Continue(p, "updateAppointment",
                  IF staffConflict(q.tenantId, q.staffId, q.startDate, q.endDate, {q.id})
                  THEN Fail(409, "Staff already booked at the new time")
                  ELSE Pass,
                  [q EXCEPT !.pc = "clientConflict"])
    /\ UNCHANGED <<authVars, middlewares, params,
                   now, services, staff, users, staffService, availability,
                   timeOff, notifications>>

\* Lines 327-336.
UpdateAppointmentStaffConflict(p) ==
    /\ procs[p].pc = "staffConflict"
    /\ procs[p].op = "updateAppointment"
    /\ LET q == procs[p]
       IN  Continue(p, "updateAppointment",
               IF staffConflict(q.tenantId, q.staffId, q.startDate, q.endDate, {q.id})
               THEN Fail(409, "Staff already booked at the new time")
               ELSE Pass,
               [q EXCEPT !.pc = "clientConflict"])
    /\ UNCHANGED <<authVars, middlewares, params,
                   now, services, staff, users, staffService, availability,
                   timeOff, appointments, notifications>>

\* Lines 339-348.
UpdateAppointmentClientConflict(p) ==
    /\ procs[p].pc = "clientConflict"
    /\ procs[p].op = "updateAppointment"
    /\ LET q == procs[p]
       IN  Continue(p, "updateAppointment",
               IF clientConflict(q.tenantId, q.clientId, q.startDate, q.endDate, {q.id})
               THEN Fail(409, "Client already has appointment at the new time")
               ELSE Pass,
               [q EXCEPT !.pc = "write"])
    /\ UNCHANGED <<authVars, middlewares, params,
                   now, services, staff, users, staffService, availability,
                   timeOff, appointments, notifications>>

\* Lines 351-363.
UpdateAppointmentWrite(p) ==
    /\ procs[p].pc = "write"
    /\ procs[p].op = "updateAppointment"
    /\ LET q == procs[p]
       IN  appointments' =
               [appointments EXCEPT ![q.id] = updatedAppointment(@, q)]
    /\ procs' = [procs EXCEPT ![p] =
           ReplyRows("updateAppointment", Ok(200, "Appointment updated successfully"),
                     {appointments[procs[p].id].tenantId})]
    /\ UNCHANGED <<authVars, middlewares, params,
                   now, services, staff, users, staffService, availability,
                   timeOff, notifications>>

(***************************************************************************)
(* cancelAppointment: one updateMany, then the count of rows it matched.   *)
(***************************************************************************)
\* A variant whose where clause leaves the status out.
cancelMatchesAnyStatus(a, id, i, tenantId) ==
    /\ i = id
    /\ TenantMatches(a.tenantId, tenantId)

cancelMatches(a, id, i, tenantId) ==
    /\ i = id
    /\ TenantMatches(a.tenantId, tenantId)
    /\ a.status # "CANCELLED"

cancelledRows(id, tenantId) ==
    {i \in DOMAIN appointments : cancelMatches(appointments[i], id, i, tenantId)}

\* A variant that cancels by deleting the row.
CancelAppointmentByDelete(p, tenantId, id) ==
    /\ procs[p].pc = "idle"
    /\ LET rows == cancelledRows(id, tenantId)
       IN  /\ appointments' =
                  IF rows = {} THEN appointments
                  ELSE SubSeq(appointments, 1, id - 1)
                           \o SubSeq(appointments, id + 1, Len(appointments))
           /\ procs' = [procs EXCEPT ![p] = Reply("cancelAppointment",
                  IF Cardinality(rows) = 0
                  THEN Fail(404, "Appointment not found or already cancelled")
                  ELSE Ok(200, "Appointment cancelled successfully"))]
    /\ UNCHANGED <<authVars, middlewares, params,
                   now, services, staff, users, staffService, availability,
                   timeOff, notifications>>

\* Lines 372-383.
CancelAppointment(p, tenantId, id) ==
    /\ procs[p].pc = "idle"
    /\ LET rows == cancelledRows(id, tenantId)
       IN  /\ appointments' =
                  IF rows = {} THEN appointments
                  ELSE [appointments EXCEPT ![id].status = "CANCELLED",
                                            ![id].canceledAt = Some(now)]
           /\ procs' = [procs EXCEPT ![p] = Reply("cancelAppointment",
                  IF Cardinality(rows) = 0
                  THEN Fail(404, "Appointment not found or already cancelled")
                  ELSE Ok(200, "Appointment cancelled successfully"))]
    /\ UNCHANGED <<authVars, middlewares, params,
                   now, services, staff, users, staffService, availability,
                   timeOff, notifications>>

(***************************************************************************)
(* Requests of the service and staff routers. Their routes run             *)
(* authMiddleware alone: req.user comes from the token, req.tenantId is    *)
(* never assigned, and req.user carries no tenantRole.                     *)
(***************************************************************************)
authMiddleware(token) ==
    [userId |-> token.userId, tenantId |-> token.tenantId, role |-> token.role,
     tenantRole |-> Undefined]

serviceRoute(token) == [user |-> authMiddleware(token), tenantId |-> Undefined]
staffRoute(token) == [user |-> authMiddleware(token), tenantId |-> Undefined]

Admins == {"OWNER", "ADMIN"}

Respond(p, r) ==
    /\ procs[p].pc = "idle"
    /\ procs' = [procs EXCEPT ![p] = r]

ServiceVisible(id, tenantId) ==
    /\ id \in DOMAIN services
    /\ TenantMatches(services[id].tenantId, tenantId)
    /\ IsNone(services[id].deletedAt)

StaffVisible(id, tenantId) ==
    /\ id \in DOMAIN staff
    /\ TenantMatches(staff[id].tenantId, tenantId)
    /\ IsNone(staff[id].deletedAt)

\* create({ data: { ..., tenantId } }): a row needs its tenantId.
CreateAccepted(tenantId) == tenantId # Undefined

(***************************************************************************)
(* listAppointments and getAppointment: rows joined with service and staff *)
(***************************************************************************)
appointmentPayload(i) ==
    {appointments[i].tenantId, services[appointments[i].serviceId].tenantId,
     staff[appointments[i].staffId].tenantId}

\* Lines 231-266.
ListAppointments(p, tenantId) ==
    /\ Respond(p, ReplyRows("listAppointments", Ok(200, "Appointments fetched successfully"),
                  UNION {appointmentPayload(i) :
                            i \in {j \in DOMAIN appointments :
                                      TenantMatches(appointments[j].tenantId, tenantId)}}))
    /\ UNCHANGED <<authVars, middlewares, params,
                   now, services, staff, users, staffService, availability, timeOff,
                   appointments, notifications>>

\* Lines 273-284.
GetAppointment(p, tenantId, id) ==
    /\ Respond(p, IF ~AppointmentFound(id, tenantId)
                  THEN Reply("getAppointment", Fail(404, "Appointment not found"))
                  ELSE ReplyRows("getAppointment",
                                 Ok(200, "Appointment fetched successfully"),
                                 appointmentPayload(id)))
    /\ UNCHANGED <<authVars, middlewares, params,
                   now, services, staff, users, staffService, availability, timeOff,
                   appointments, notifications>>


(***************************************************************************)
(* service.controller.js                                                   *)
(***************************************************************************)
serviceBodyCheck(body) ==
    IF ~IsNone(body.duration) /\ Val(body.duration) <= 0
    THEN Fail(400, "Duration must be positive")
    ELSE IF ~IsNone(body.price) /\ Val(body.price) < 0
         THEN Fail(400, "Price must be >= 0")
    ELSE Pass

createServiceCheck(req, body) ==
    LET role == requireTenantRole(req.user, Admins)
    IN  IF Failed(role) THEN role
        ELSE IF \/ body.title = ""
                \/ IsNone(body.duration) \/ Val(body.duration) = 0
                \/ IsNone(body.price) \/ Val(body.price) = 0
             THEN Fail(400, "Missing required fields: title, duration, price")
        ELSE serviceBodyCheck(body)

\* Lines 22-47.
CreateService(p, req, id, body) ==
    LET r == createServiceCheck(req, body)
        ok == ~Failed(r) /\ CreateAccepted(req.tenantId)
    IN  /\ id \notin DOMAIN services
        /\ services' =
               IF ok
               THEN [i \in DOMAIN services \cup {id} |->
                        IF i = id
                        THEN [tenantId |-> req.tenantId, title |-> body.title,
                              duration |-> Val(body.duration), price |-> Val(body.price),
                              currency |-> IF IsNone(body.currency) THEN "USD"
                                           ELSE Val(body.currency),
                              active |-> TRUE, deletedAt |-> None]
                        ELSE services[i]]
               ELSE services
        /\ Respond(p, IF Failed(r) THEN Reply("createService", r)
                      ELSE IF ok
                      THEN ReplyRows("createService",
                                     Ok(201, "Service created successfully"),
                                     {req.tenantId})
                      ELSE Reply("createService", Fail(500, "Internal Server Error")))
        /\ UNCHANGED <<authVars, middlewares, params,
                       now, staff, users, staffService, availability, timeOff,
                       appointments, notifications>>

\* Lines 54-88.
ListServices(p, req) ==
    /\ Respond(p, ReplyRows("listServices", Ok(200, "Services fetched successfully"),
                  {services[i].tenantId : i \in {j \in DOMAIN services :
                                                    ServiceVisible(j, req.tenantId)}}))
    /\ UNCHANGED <<authVars, middlewares, params,
                   now, services, staff, users, staffService, availability, timeOff,
                   appointments, notifications>>

\* Lines 95-108: the service with its staffServices and their staff.
GetService(p, req, id) ==
    /\ Respond(p, IF ~ServiceVisible(id, req.tenantId)
                  THEN Reply("getService", Fail(404, "Service not found"))
                  ELSE ReplyRows("getService", Ok(200, "Service fetched successfully"),
                           {services[id].tenantId}
                           \cup {staff[l[1]].tenantId :
                                    l \in {k \in staffService : k[2] = id}}))
    /\ UNCHANGED <<authVars, middlewares, params,
                   now, services, staff, users, staffService, availability, timeOff,
                   appointments, notifications>>

\* updateMany data: an undefined field is left alone.
updatedService(row, body) ==
    [row EXCEPT !.title = IF body.title = "" THEN @ ELSE body.title,
                !.duration = IF IsNone(body.duration) THEN @ ELSE Val(body.duration),
                !.price = IF IsNone(body.price) THEN @ ELSE Val(body.price),
                !.currency = IF IsNone(body.currency) THEN @ ELSE Val(body.currency),
                !.active = IF IsNone(body.active) THEN @ ELSE Val(body.active)]

updateServiceCheck(req, id, body) ==
    LET role == requireTenantRole(req.user, Admins)
        check == serviceBodyCheck(body)
    IN  IF Failed(role) THEN role
        ELSE IF Failed(check) THEN check
        ELSE IF ~ServiceVisible(id, req.tenantId) THEN Fail(404, "Service not found")
        ELSE Pass

\* Lines 115-144.
UpdateService(p, req, id, body) ==
    LET r == updateServiceCheck(req, id, body)
    IN  /\ services' = IF Failed(r) THEN services
                       ELSE [services EXCEPT ![id] = updatedService(@, body)]
        /\ Respond(p, IF Failed(r) THEN Reply("updateService", r)
                      ELSE ReplyRows("updateService",
                                     Ok(200, "Service updated successfully"),
                                     {services[id].tenantId}))
        /\ UNCHANGED <<authVars, middlewares, params,
                       now, staff, users, staffService, availability, timeOff,
                       appointments, notifications>>

deleteServiceCheck(req, id) ==
    LET role == requireTenantRole(req.user, Admins)
    IN  IF Failed(role) THEN role
        ELSE IF ~ServiceVisible(id, req.tenantId)
             THEN Fail(404, "Service not found or already deleted")
        ELSE Pass

\* Lines 151-165.
DeleteService(p, req, id) ==
    LET r == deleteServiceCheck(req, id)
    IN  /\ services' = IF Failed(r) THEN services
                       ELSE [services EXCEPT ![id].deletedAt = Some(now),
                                             ![id].active = FALSE]
        /\ Respond(p, IF Failed(r) THEN Reply("deleteService", r)
                      ELSE Reply("deleteService", Ok(200, "Service deleted successfully")))
        /\ UNCHANGED <<authVars, middlewares, params,
                       now, staff, users, staffService, availability, timeOff,
                       appointments, notifications>>

assignStaffCheck(req, id, staffId) ==
    LET role == requireTenantRole(req.user, Admins)
    IN  IF Failed(role) THEN role
        ELSE IF staffId = "" THEN Fail(400, "staffId is required")
        ELSE IF ~ServiceVisible(id, req.tenantId) THEN Fail(404, "Service not found")
        ELSE IF ~StaffVisible(staffId, req.tenantId) THEN Fail(404, "Staff not found")
        ELSE IF <<staffId, id>> \in staffService
             THEN Fail(409, "Staff already assigned to this service")
        ELSE Pass

\* Lines 172-203.
AssignStaff(p, req, id, staffId) ==
    LET r == assignStaffCheck(req, id, staffId)
    IN  /\ staffService' = IF Failed(r) THEN staffService
                           ELSE staffService \cup {<<staffId, id>>}
        /\ Respond(p, IF Failed(r) THEN Reply("assignStaff", r)
                      ELSE ReplyRows("assignStaff",
                               Ok(200, "Staff assigned to service successfully"),
                               {staff[staffId].tenantId, services[id].tenantId}))
        /\ UNCHANGED <<authVars, middlewares, params,
                       now, services, staff, users, availability, timeOff,
                       appointments, notifications>>

(***************************************************************************)
(* staff.controller.js                                                     *)
(***************************************************************************)
createStaffCheck(req, body) ==
    LET role == requireTenantRole(req.user, Admins)
    IN  IF Failed(role) THEN role
        ELSE IF body.name = "" THEN Fail(400, "Name is required")
        ELSE IF body.userId # "" /\ ~ClientFound(body.userId)
             THEN Fail(404, "Linked user not found")
        ELSE Pass

\* Lines 22-49.
CreateStaff(p, req, id, body) ==
    LET r == createStaffCheck(req, body)
        ok == ~Failed(r) /\ CreateAccepted(req.tenantId)
    IN  /\ id \notin DOMAIN staff
        /\ staff' =
               IF ok
               THEN [i \in DOMAIN staff \cup {id} |->
                        IF i = id
                        THEN [tenantId |-> req.tenantId, name |-> body.name,
                              deletedAt |-> None]
                        ELSE staff[i]]
               ELSE staff
        /\ Respond(p, IF Failed(r) THEN Reply("createStaff", r)
                      ELSE IF ok
                      THEN ReplyRows("createStaff", Ok(201, "Staff created successfully"),
                                     {req.tenantId})
                      ELSE Reply("createStaff", Fail(500, "Internal Server Error")))
        /\ UNCHANGED <<authVars, middlewares, params,
                       now, services, users, staffService, availability, timeOff,
                       appointments, notifications>>

\* The staff row with its staffServices and their services.
staffPayload(id) ==
    {staff[id].tenantId}
    \cup {services[l[2]].tenantId : l \in {k \in staffService : k[1] = id}}

\* Lines 56-92.
ListStaff(p, req) ==
    /\ Respond(p, ReplyRows("listStaff", Ok(200, "Staff fetched successfully"),
                  UNION {staffPayload(i) : i \in {j \in DOMAIN staff :
                                                     StaffVisible(j, req.tenantId)}}))
    /\ UNCHANGED <<authVars, middlewares, params,
                   now, services, staff, users, staffService, availability, timeOff,
                   appointments, notifications>>

\* Lines 99-112.
GetStaff(p, req, id) ==
    /\ Respond(p, IF ~StaffVisible(id, req.tenantId)
                  THEN Reply("getStaff", Fail(404, "Staff not found"))
                  ELSE ReplyRows("getStaff", Ok(200, "Staff fetched successfully"),
                                 staffPayload(id)))
    /\ UNCHANGED <<authVars, middlewares, params,
                   now, services, staff, users, staffService, availability, timeOff,
                   appointments, notifications>>

staffGuard(req, id, notFound) ==
    LET role == requireTenantRole(req.user, Admins)
    IN  IF Failed(role) THEN role
        ELSE IF ~StaffVisible(id, req.tenantId) THEN Fail(404, notFound)
        ELSE Pass

\* Lines 119-136: updateMany in the tenant, then the row read back by id alone.
UpdateStaff(p, req, id, body) ==
    LET r == staffGuard(req, id, "Staff not found")
    IN  /\ staff' = IF Failed(r) THEN staff
                    ELSE [staff EXCEPT ![id].name =
                             IF body.name = "" THEN @ ELSE body.name]
        /\ Respond(p, IF Failed(r) THEN Reply("updateStaff", r)
                      ELSE ReplyRows("updateStaff", Ok(200, "Staff updated successfully"),
                                     {staff[id].tenantId}))
        /\ UNCHANGED <<authVars, middlewares, params,
                       now, services, users, staffService, availability, timeOff,
                       appointments, notifications>>

\* Lines 143-158.
DeleteStaff(p, req, id) ==
    LET r == staffGuard(req, id, "Staff not found or already deleted")
    IN  /\ staff' = IF Failed(r) THEN staff
                    ELSE [staff EXCEPT ![id].deletedAt = Some(now)]
        /\ Respond(p, IF Failed(r) THEN Reply("deleteStaff", r)
                      ELSE Reply("deleteStaff", Ok(200, "Staff deleted successfully")))
        /\ UNCHANGED <<authVars, middlewares, params,
                       now, services, users, staffService, availability, timeOff,
                       appointments, notifications>>

assignServiceCheck(req, id, serviceId) ==
    LET role == requireTenantRole(req.user, Admins)
    IN  IF Failed(role) THEN role
        ELSE IF serviceId = "" THEN Fail(400, "serviceId is required")
        ELSE IF ~StaffVisible(id, req.tenantId) THEN Fail(404, "Staff not found")
        ELSE IF ~ServiceVisible(serviceId, req.tenantId) THEN Fail(404, "Service not found")
        ELSE IF <<id, serviceId>> \in staffService
             THEN Fail(409, "Service already assigned to this staff")
        ELSE Pass

\* Lines 165-198.
AssignService(p, req, id, serviceId) ==
    LET r == assignServiceCheck(req, id, serviceId)
    IN  /\ staffService' = IF Failed(r) THEN staffService
                           ELSE staffService \cup {<<id, serviceId>>}
        /\ Respond(p, IF Failed(r) THEN Reply("assignService", r)
                      ELSE ReplyRows("assignService",
                               Ok(200, "Service assigned to staff successfully"),
                               {staff[id].tenantId, services[serviceId].tenantId}))
        /\ UNCHANGED <<authVars, middlewares, params,
                       now, services, staff, users, availability, timeOff,
                       appointments, notifications>>

\* deleteMany({ where: { staffId: id, serviceId } }): by the two ids alone.
unassignServiceCheck(req, id, serviceId) ==
    LET role == requireTenantRole(req.user, Admins)
    IN  IF Failed(role) THEN role
        ELSE IF serviceId = "" THEN Fail(400, "serviceId is required")
        ELSE IF <<id, serviceId>> \notin staffService
             THEN Fail(404, "Service not assigned to this staff")
        ELSE Pass

\* Lines 205-222.
UnassignService(p, req, id, serviceId) ==
    LET r == unassignServiceCheck(req, id, serviceId)
    IN  /\ staffService' = IF Failed(r) THEN staffService
                           ELSE staffService \ {<<id, serviceId>>}
        /\ Respond(p, IF Failed(r) THEN Reply("unassignService", r)
                      ELSE Reply("unassignService",
                               Ok(200, "Service unassigned from staff successfully")))
        /\ UNCHANGED <<authVars, middlewares, params,
                       now, services, staff, users, availability, timeOff,
                       appointments, notifications>>

\* The wall clock advances.
Tick ==
    /\ now < SlotTime(MaxSlot)
    /\ now' = now + SlotMs
    /\ UNCHANGED <<authVars, middlewares, params,
                   services, staff, users, staffService, availability, timeOff,
                   appointments, notifications, procs>>

\* The response is out; the process takes the next request.
Finish(p) ==
    /\ procs[p].pc = "done"
    /\ procs' = [procs EXCEPT ![p] = Idle]
    /\ UNCHANGED <<authVars, middlewares, params,
                   now, services, staff, users, staffService, availability, timeOff,
                   appointments, notifications>>

AllIdle == \A p \in Procs : procs[p].pc = "idle"

(***************************************************************************)
(* The store the requests run against: two tenants, each with a staff      *)
(* member assigned to a service of six hours, and two clients.             *)
(***************************************************************************)
ServiceRow(tenantId, duration, price) ==
    [tenantId |-> tenantId, title |-> "Cut", duration |-> duration, price |-> price,
     currency |-> "USD", active |-> TRUE, deletedAt |-> None]

InitServices ==
    [id \in {"s1", "s2"} |->
        ServiceRow(IF id = "s1" THEN "t1" ELSE "t2", 6 * MinutesPerHour, 50)]
InitStaff ==
    [id \in {"st1", "st2"} |->
        [tenantId |-> IF id = "st1" THEN "t1" ELSE "t2", name |-> "Ann",
         deletedAt |-> None]]
InitUsers == [id \in {"u1", "u2"} |-> [deletedAt |-> None, role |-> "CLIENT"]]
\* u1 owns t1 and is on the staff of t2; u2 administers t2.
InitTenantUsers ==
    {[tenantId |-> "t1", userId |-> "u1", role |-> "OWNER"],
     [tenantId |-> "t2", userId |-> "u2", role |-> "ADMIN"],
     [tenantId |-> "t2", userId |-> "u1", role |-> "STAFF"]}
InitStaffService == {<<"st1", "s1">>, <<"st2", "s2">>}

Recurring(staffId, tenantId, dow, startTime, endTime) ==
    [tenantId |-> tenantId, staffId |-> staffId, type |-> "RECURRING",
     dayOfWeek |-> Some(dow), startTime |-> startTime, endTime |-> endTime,
     startDate |-> None, endDate |-> None, deletedAt |-> None]
OneOff(staffId, tenantId, startDate, endDate) ==
    [tenantId |-> tenantId, staffId |-> staffId, type |-> "ONE_OFF",
     dayOfWeek |-> None, startTime |-> None, endTime |-> None,
     startDate |-> Some(startDate), endDate |-> Some(endDate), deletedAt |-> None]
TimeOffRow(staffId, tenantId, start, end, reason) ==
    [tenantId |-> tenantId, staffId |-> staffId, start |-> start, end |-> end,
     reason |-> reason]

\* Saturday 06:00-18:00 weekly; or the one-off range of the grid's first day.
StoreConfigs ==
    { [availability |-> {}, timeOff |-> << >>],
      [availability |-> {Recurring("st1", "t1", 6, HHMM(6, 0), HHMM(18, 0))},
       timeOff |-> <<TimeOffRow("st1", "t1", SlotTime(0), SlotTime(1) + 3 * MsPerHour, "")>>],
      [availability |-> {OneOff("st1", "t1", SlotTime(0), SlotTime(2))},
       timeOff |-> << >>] }

InitStore ==
    /\ now = SlotTime(1)
    /\ services = InitServices
    /\ staff = InitStaff
    /\ users = InitUsers
    /\ staffService = InitStaffService
    /\ \E c \in StoreConfigs : availability = c.availability /\ timeOff = c.timeOff
    /\ appointments = << >>
    /\ notifications = << >>
    /\ procs = [p \in Procs |-> Idle]
    /\ middlewares = << >>
    /\ params = None
    /\ tenants = Tenants
    /\ tenantUsers = InitTenantUsers
    /\ cookies = [p \in Procs |-> None]

(***************************************************************************)
(* Spec: requests served one at a time.                                    *)
(***************************************************************************)
Caller(role) == [userId |-> "u1", tenantId |-> "t1", role |-> role,
                 tenantRole |-> Undefined]

CreateBodies ==
    {[serviceId |-> "s1", staffId |-> "st1", clientId |-> c,
      start |-> DateAt(t), end |-> DateAt(t + n * SlotMs), notes |-> None] :
        c \in {"u1", "u2"}, t \in Times, n \in {0, 1, 2}}

UpdateBodies ==
    {[status |-> Some("CONFIRMED"), notes |-> None,
      start |-> MissingDate, end |-> MissingDate]}
    \cup
    {[status |-> None, notes |-> None, start |-> DateAt(t), end |-> DateAt(t + n * SlotMs)] :
        t \in Times, n \in {0, 1}}

Init == InitStore

Next ==
    \/ Finish(1)
    \/ \E b \in CreateBodies : CreateAppointmentLoad(1, "t1", b)
    \/ CreateAppointmentAssigned(1)
    \/ CreateAppointmentAvailability(1)
    \/ CreateAppointmentStaffConflict(1)
    \/ CreateAppointmentClientConflict(1)
    \/ \E f \in {"none", "appointment", "notification"} :
           CreateAppointmentTransaction(1, f)
    \/ \E id \in 1..MaxAppts, b \in UpdateBodies, role \in {"OWNER", "CLIENT"} :
           UpdateAppointmentFind(1, Caller(role), "t1", id, b)
    \/ UpdateAppointmentService(1)
    \/ UpdateAppointmentAvailability(1)
    \/ UpdateAppointmentStaffConflict(1)
    \/ UpdateAppointmentClientConflict(1)
    \/ UpdateAppointmentWrite(1)
    \/ \E id \in 1..MaxAppts, t \in Tenants : CancelAppointment(1, t, id)

Spec == Init /\ [][Next]_vars

(***************************************************************************)
(* SpecConc: two requests in flight at once against the store; the steps   *)
(* of createAppointment interleave with each other, with updateService,    *)
(* with unassignService and with cancelAppointment.                        *)
(***************************************************************************)
OwnerToken(tenantId) == [userId |-> "u1", tenantId |-> tenantId, role |-> "OWNER"]

ConcCreateBodies ==
    {[serviceId |-> "s1", staffId |-> "st1", clientId |-> c,
      start |-> DateAt(SlotTime(2)), end |-> DateAt(SlotTime(2) + n * SlotMs),
      notes |-> None] : c \in {"u1", "u2"}, n \in {1, 2}}

ConcServiceBodies ==
    {[title |-> "Cut", duration |-> Some(n * 6 * MinutesPerHour), price |-> None,
      currency |-> None, active |-> None] : n \in {1, 2}}

InitConc ==
    /\ InitStore
    /\ availability = {}

NextConc ==
    \E p \in Procs :
        \/ Finish(p)
        \/ \E b \in ConcCreateBodies : CreateAppointmentLoad(p, "t1", b)
        \/ CreateAppointmentAssigned(p)
        \/ CreateAppointmentAvailability(p)
        \/ CreateAppointmentStaffConflict(p)
        \/ CreateAppointmentClientConflict(p)
        \/ CreateAppointmentTransaction(p, "none")
        \/ \E b \in ConcServiceBodies :
               UpdateService(p, serviceRoute(OwnerToken("t1")), "s1", b)
        \/ \E id \in 1..MaxAppts, t \in Tenants : CancelAppointment(p, t, id)
        \/ UnassignService(p, staffRoute(OwnerToken("t1")), "st1", "s1")

SpecConc == InitConc /\ [][NextConc]_vars

(***************************************************************************)
(* SpecFence: callers of either tenant use every endpoint, one request at  *)
(* a time, against a store that already holds a booking of each tenant.    *)
(***************************************************************************)
Tokens ==
    {[userId |-> "u1", tenantId |-> t, role |-> r] :
        t \in Tenants, r \in {"OWNER", "CLIENT"}}

BookedRow(tenantId, serviceId, staffId, clientId) ==
    [tenantId |-> tenantId, serviceId |-> serviceId, staffId |-> staffId,
     clientId |-> clientId, start |-> SlotTime(2), end |-> SlotTime(3),
     price |-> 50, currency |-> "USD", notes |-> None, status |-> "PENDING",
     canceledAt |-> None]

InitFence ==
    /\ now = SlotTime(1)
    /\ services = InitServices
    /\ staff = InitStaff
    /\ users = InitUsers
    /\ staffService = InitStaffService
    /\ availability = {}
    /\ timeOff = << >>
    /\ appointments = <<BookedRow("t1", "s1", "st1", "u1"),
                        BookedRow("t2", "s2", "st2", "u2")>>
    /\ notifications =
           <<bookingNotification([tenantId |-> "t1", clientId |-> "u1"], 1),
             bookingNotification([tenantId |-> "t2", clientId |-> "u2"], 2)>>
    /\ procs = [p \in Procs |-> Idle]
    /\ middlewares = << >>
    /\ params = None
    /\ tenants = Tenants
    /\ tenantUsers = InitTenantUsers
    /\ cookies = [p \in Procs |-> None]

\* The requests aim at the rows of tenant t2; the caller is of either tenant.
FenceServiceIds == {"s2"}
FenceStaffIds == {"st2"}
FenceServiceBodies ==
    {[title |-> "Cut", duration |-> Some(12 * MinutesPerHour), price |-> None,
      currency |-> None, active |-> None]}
FenceStaffBodies == {[name |-> n, userId |-> u] : n \in {"", "Bea"}, u \in {"", "u9"}}

\* Every request a caller holding the token can send.
RequestBy(token) ==
    \/ \E b \in FenceServiceBodies : CreateService(1, serviceRoute(token), "s3", b)
    \/ ListServices(1, serviceRoute(token))
    \/ \E id \in FenceServiceIds : GetService(1, serviceRoute(token), id)
    \/ \E id \in FenceServiceIds, b \in FenceServiceBodies :
           UpdateService(1, serviceRoute(token), id, b)
    \/ \E id \in FenceServiceIds : DeleteService(1, serviceRoute(token), id)
    \/ \E id \in FenceServiceIds, staffId \in DOMAIN staff :
           AssignStaff(1, serviceRoute(token), id, staffId)
    \/ \E b \in FenceStaffBodies : CreateStaff(1, staffRoute(token), "st3", b)
    \/ ListStaff(1, staffRoute(token))
    \/ \E id \in FenceStaffIds : GetStaff(1, staffRoute(token), id)
    \/ \E id \in FenceStaffIds, b \in FenceStaffBodies :
           UpdateStaff(1, staffRoute(token), id, b)
    \/ \E id \in FenceStaffIds : DeleteStaff(1, staffRoute(token), id)
    \/ \E id \in FenceStaffIds, serviceId \in FenceServiceIds :
           AssignService(1, staffRoute(token), id, serviceId)
    \/ \E id \in FenceStaffIds, serviceId \in FenceServiceIds :
           UnassignService(1, staffRoute(token), id, serviceId)
    \/ ListAppointments(1, token.tenantId)
    \/ \E id \in DOMAIN appointments : GetAppointment(1, token.tenantId, id)
    \/ \E id \in DOMAIN appointments : CancelAppointment(1, token.tenantId, id)

NextFence ==
    \/ Finish(1)
    \/ \E token \in Tokens : RequestBy(token)

SpecFence == InitFence /\ [][NextFence]_vars

(***************************************************************************)
(* SpecEdit: bookings served one at a time between an owner's edits of the *)
(* service, the staff member and their link.                               *)
(***************************************************************************)
\* u3 is a soft-deleted user; u9 is no user at all.
EditUsers ==
    [id \in {"u1", "u2", "u3"} |->
        [deletedAt |-> IF id = "u3" THEN Some(SlotTime(0)) ELSE None,
         role |-> "CLIENT"]]

InitEdit ==
    /\ now = SlotTime(1)
    /\ services = InitServices
    /\ staff = InitStaff
    /\ users = EditUsers
    /\ staffService = InitStaffService
    /\ availability = {}
    /\ timeOff = << >>
    /\ appointments = << >>
    /\ notifications = << >>
    /\ procs = [p \in Procs |-> Idle]
    /\ middlewares = << >>
    /\ params = None
    /\ tenants = Tenants
    /\ tenantUsers = InitTenantUsers
    /\ cookies = [p \in Procs |-> None]

EditCreateBodies ==
    {[serviceId |-> sv, staffId |-> st, clientId |-> c,
      start |-> DateAt(SlotTime(k)), end |-> DateAt(SlotTime(k) + SlotMs),
      notes |-> None] :
        sv \in {"s1", "s2"}, st \in {"st1", "st2"}, c \in {"u1", "u3", "u9"},
        k \in {2, 3}}

EditServiceBodies ==
    {[title |-> "Cut", duration |-> None, price |-> Some(60), currency |-> Some("EUR"),
      active |-> None],
     [title |-> "Cut", duration |-> None, price |-> None, currency |-> None,
      active |-> Some(FALSE)]}

\* Updates that carry a status, a note or both, and no dates.
EditUpdateBodies ==
    {[status |-> st, notes |-> nt, start |-> MissingDate, end |-> MissingDate] :
        st \in {None, Some("CONFIRMED")}, nt \in {None, Some("call first")}}
    \ {[status |-> None, notes |-> None, start |-> MissingDate, end |-> MissingDate]}

NextEdit ==
    \/ Finish(1)
    \/ \E id \in 1..MaxAppts, b \in EditUpdateBodies, role \in {"OWNER", "CLIENT"} :
           UpdateAppointmentFind(1, Caller(role), "t1", id, b)
    \/ UpdateAppointmentWrite(1)
    \/ \E b \in EditCreateBodies : CreateAppointmentLoad(1, "t1", b)
    \/ CreateAppointmentAssigned(1)
    \/ CreateAppointmentAvailability(1)
    \/ CreateAppointmentStaffConflict(1)
    \/ CreateAppointmentClientConflict(1)
    \/ CreateAppointmentTransaction(1, "none")
    \/ \E b \in EditServiceBodies :
           UpdateService(1, serviceRoute(OwnerToken("t1")), "s1", b)
    \/ DeleteService(1, serviceRoute(OwnerToken("t1")), "s1")
    \/ DeleteStaff(1, staffRoute(OwnerToken("t1")), "st1")
    \/ UnassignService(1, staffRoute(OwnerToken("t1")), "st1", "s1")
    \/ AssignService(1, staffRoute(OwnerToken("t1")), "st1", "s1")

SpecEdit == InitEdit /\ [][NextEdit]_vars

(***************************************************************************)
(* SpecRace: two requests in flight at once against a store that holds one *)
(* booking; the steps of createAppointment, of a rescheduling              *)
(* updateAppointment and cancelAppointment interleave.                     *)
(***************************************************************************)
RaceCreateBodies ==
    {[serviceId |-> "s1", staffId |-> "st1", clientId |-> "u2",
      start |-> DateAt(SlotTime(3)), end |-> DateAt(SlotTime(3) + SlotMs),
      notes |-> None]}

RaceUpdateBodies ==
    {[status |-> None, notes |-> None,
      start |-> DateAt(SlotTime(s)), end |-> DateAt(SlotTime(s) + SlotMs)] :
        s \in {2, 3}}

InitRace ==
    /\ now = SlotTime(1)
    /\ services = InitServices
    /\ staff = InitStaff
    /\ users = InitUsers
    /\ staffService = InitStaffService
    /\ availability = {}
    /\ timeOff = << >>
    /\ appointments = <<BookedRow("t1", "s1", "st1", "u1")>>
    /\ notifications = <<bookingNotification([tenantId |-> "t1", clientId |-> "u1"], 1)>>
    /\ procs = [p \in Procs |-> Idle]
    /\ middlewares = << >>
    /\ params = None
    /\ tenants = Tenants
    /\ tenantUsers = InitTenantUsers
    /\ cookies = [p \in Procs |-> None]

\* The steps a request in flight takes on its own, once it has been received.
RequestStep(p) ==
    \/ CreateAppointmentAssigned(p)
    \/ CreateAppointmentAvailability(p)
    \/ CreateAppointmentStaffConflict(p)
    \/ CreateAppointmentClientConflict(p)
    \/ CreateAppointmentTransaction(p, "none")
    \/ UpdateAppointmentService(p)
    \/ UpdateAppointmentAvailability(p)
    \/ UpdateAppointmentStaffConflict(p)
    \/ UpdateAppointmentClientConflict(p)
    \/ UpdateAppointmentWrite(p)

NextRace ==
    \E p \in Procs :
        \/ Finish(p)
        \/ \E b \in RaceCreateBodies : CreateAppointmentLoad(p, "t1", b)
        \/ \E id \in 1..MaxAppts, b \in RaceUpdateBodies :
               UpdateAppointmentFind(p, Caller("OWNER"), "t1", id, b)
        \/ \E id \in 1..MaxAppts : CancelAppointment(p, "t1", id)
        \/ RequestStep(p)

SpecRace == InitRace /\ [][NextRace]_vars

(***************************************************************************)
(* SpecLive: SpecRace with the event loop's scheduling: every await of a   *)
(* handler resolves, so a request in flight is not left waiting while a    *)
(* step of it stays enabled.                                               *)
(***************************************************************************)
SpecLive == SpecRace /\ \A p \in Procs : WF_vars(RequestStep(p))


(***************************************************************************)
(* SpecChecks: one request, createAppointment or a rescheduling            *)
(* updateAppointment, against each of a set of stores: the checks of the   *)
(* handlers applied to availability records of every weekday, to time-off  *)
(* records and to booked appointments of every status.                     *)
(***************************************************************************)
\* A second staff member of tenant t1, so that a client can be booked elsewhere.
CheckStaff ==
    [id \in {"st1", "st2", "st3"} |->
        [tenantId |-> IF id = "st2" THEN "t2" ELSE "t1", name |-> "Ann",
         deletedAt |-> None]]
CheckStaffService == {<<"st1", "s1">>, <<"st2", "s2">>, <<"st3", "s1">>}

\* Saturday 12:00, 15:00 and 18:00, and 12:00 of each of the six days after.
CheckStarts ==
    {SlotTime(2), SlotTime(2) + 3 * MsPerHour, SlotTime(3)}
    \cup {SlotTime(2) + d * MsPerDay : d \in 1..6}

CheckRow(tenantId, staffId, clientId, start, status) ==
    [BookedRow(tenantId, IF tenantId = "t1" THEN "s1" ELSE "s2", staffId, clientId)
        EXCEPT !.start = start, !.end = start + SlotMs, !.status = status,
               !.canceledAt = IF status = "CANCELLED" THEN Some(SlotTime(1)) ELSE None]

CheckRows ==
    {CheckRow("t1", st, c, t, s) :
        st \in {"st1", "st3"}, c \in {"u1", "u2"},
        t \in {SlotTime(1), SlotTime(2), SlotTime(3)}, s \in AppointmentStatus}
    \cup {CheckRow("t2", "st2", "u1", SlotTime(2), "PENDING")}

CheckStore(link, duration, avail, offs, appts) ==
    [staffService |-> IF link THEN CheckStaffService
                      ELSE CheckStaffService \ {<<"st1", "s1">>},
     duration |-> duration, availability |-> avail, timeOff |-> offs,
     appointments |-> appts]

\* A weekly window of each weekday, or a one-off range; nothing else stored.
AvailabilityStores ==
    {CheckStore(TRUE, 6 * MinutesPerHour, {av}, << >>, << >>) :
        av \in {Recurring("st1", "t1", d, HHMM(6, 0), HHMM(18, 0)) : d \in 0..6}
               \cup {OneOff("st1", "t1", SlotTime(2), SlotTime(3))}}

\* One-off records: a range that ends with the 15:00 candidate, and records
\* that lack a bound.
OneOffStores ==
    {CheckStore(TRUE, 6 * MinutesPerHour, {av}, << >>, << >>) :
        av \in {[OneOff("st1", "t1", SlotTime(2) + 3 * MsPerHour,
                        SlotTime(3) + 3 * MsPerHour) EXCEPT !.startDate = from, !.endDate = to] :
                   from \in {None, Some(SlotTime(2)), Some(SlotTime(2) + 3 * MsPerHour)},
                   to \in {None, Some(SlotTime(3)), Some(SlotTime(3) + 3 * MsPerHour)}}}

\* "ab:00", "06:ab", "6", "6:", "18:", "25:00" and "".
MalformedTimes ==
    {Some(<<Letters, Digits(0)>>), Some(<<Digits(6), Letters>>), Some(<<Digits(6)>>),
     Some(<<Digits(6), Blank>>), Some(<<Digits(18), Blank>>),
     Some(<<Digits(25), Digits(0)>>), EmptyString}

\* A Saturday record with a malformed startTime or endTime, alone or beside
\* the Saturday record 06:00-18:00.
MalformedStores ==
    {CheckStore(TRUE, 6 * MinutesPerHour, {av} \cup others, << >>, << >>) :
        av \in {Recurring("st1", "t1", 6, bad, HHMM(18, 0)) : bad \in MalformedTimes}
               \cup {Recurring("st1", "t1", 6, HHMM(6, 0), bad) : bad \in MalformedTimes}
               \cup {Recurring("st1", "t1", 6, bad, bad) : bad \in MalformedTimes},
        others \in {{}, {Recurring("st1", "t1", 6, HHMM(6, 0), HHMM(18, 0))}}}

CheckTimeOffs ==
    {TimeOffRow(st, "t1", SlotTime(0), end, reason) :
        st \in {"st1", "st3"},
        end \in {SlotTime(2) - MsPerHour, SlotTime(2), SlotTime(3)},
        reason \in {"", "Vacation"}}

\* One or two time-off records, with no availability or with a one-off range
\* that ends where the earliest candidate starts.
TimeOffStores ==
    {CheckStore(TRUE, 6 * MinutesPerHour, avail, offs, << >>) :
        avail \in {{}, {OneOff("st1", "t1", SlotTime(0), SlotTime(2))}},
        offs \in {<<tf>> : tf \in CheckTimeOffs}
                 \cup {<<tf, TimeOffRow("st1", "t1", SlotTime(0), SlotTime(3), "Sick")>> :
                          tf \in CheckTimeOffs}}

\* One booked appointment, or the PENDING appointment of u1 with st1 and another.
ConflictStores ==
    {CheckStore(TRUE, 6 * MinutesPerHour, {}, << >>, appts) :
        appts \in {<<a>> : a \in CheckRows}
                  \cup {<<CheckRow("t1", "st1", "u1", SlotTime(2), "PENDING"), a>> :
                           a \in CheckRows}}

\* Stores in which a request fails several checks at once.
OrderStores ==
    {CheckStore(link, n * 6 * MinutesPerHour, avail, offs, appts) :
        link \in BOOLEAN, n \in {1, 2},
        avail \in {{}, {OneOff("st1", "t1", SlotTime(0), SlotTime(2))}},
        offs \in {<< >>, <<TimeOffRow("st1", "t1", SlotTime(0), SlotTime(3), "")>>},
        appts \in {<< >>, <<CheckRow("t1", "st1", "u1", SlotTime(2), "PENDING")>>}}

CheckStores ==
    AvailabilityStores \cup OneOffStores \cup MalformedStores \cup TimeOffStores
    \cup ConflictStores \cup OrderStores

CheckCreateBodies ==
    {[serviceId |-> "s1", staffId |-> "st1", clientId |-> c,
      start |-> DateAt(t), end |-> DateAt(t + SlotMs), notes |-> None] :
        c \in {"u1", "u2"}, t \in CheckStarts}
    \cup
    {[serviceId |-> sv, staffId |-> "st1", clientId |-> c,
      start |-> DateAt(SlotTime(s)), end |-> e, notes |-> None] :
        sv \in {"s1", "s9"}, c \in {"u1", "u9"}, s \in {0, 2},
        e \in {MissingDate, DateAt(SlotTime(2)), DateAt(SlotTime(3))}}

CheckUpdateBodies ==
    {[status |-> None, notes |-> None, start |-> DateAt(t), end |-> DateAt(t + SlotMs)] :
        t \in {SlotTime(2), SlotTime(2) + 3 * MsPerHour, SlotTime(3)}}

InitChecks ==
    /\ now = SlotTime(1)
    /\ staff = CheckStaff
    /\ users = InitUsers
    /\ \E c \in CheckStores :
           /\ services = [InitServices EXCEPT !["s1"].duration = c.duration]
           /\ staffService = c.staffService
           /\ availability = c.availability
           /\ timeOff = c.timeOff
           /\ appointments = c.appointments
           /\ notifications =
                  [i \in DOMAIN c.appointments |->
                      bookingNotification([tenantId |-> c.appointments[i].tenantId,
                                           clientId |-> c.appointments[i].clientId], i)]
    /\ procs = [p \in Procs |-> Idle]
    /\ middlewares = << >>
    /\ params = None
    /\ tenants = Tenants
    /\ tenantUsers = InitTenantUsers
    /\ cookies = [p \in Procs |-> None]

NextChecks ==
    \/ \E b \in CheckCreateBodies : CreateAppointmentLoad(1, "t1", b)
    \/ CreateAppointmentAssigned(1)
    \/ CreateAppointmentAvailability(1)
    \/ CreateAppointmentStaffConflict(1)
    \/ CreateAppointmentClientConflict(1)
    \/ CreateAppointmentTransaction(1, "none")
    \/ \E id \in 1..MaxAppts, b \in CheckUpdateBodies :
           UpdateAppointmentFind(1, Caller("OWNER"), "t1", id, b)
    \/ UpdateAppointmentService(1)
    \/ UpdateAppointmentAvailability(1)
    \/ UpdateAppointmentStaffConflict(1)
    \/ UpdateAppointmentClientConflict(1)
    \/ UpdateAppointmentWrite(1)

SpecChecks == InitChecks /\ [][NextChecks]_vars


(***************************************************************************)
(* lib/prismaWithTenant: the middleware that prismaWithTenant(tenantId)    *)
(* adds to the one prisma client, and a client call on its way through the *)
(* middlewares to the query engine.                                        *)
(*                                                                         *)
(* A where filter is [id, tenantId] and a data payload [title, tenantId],  *)
(* a key that is absent holding Undefined; args, where and data are        *)
(* optional.                                                               *)
(***************************************************************************)
MaxGuards == 2

tenantModels ==
    {"Appointment", "Service", "Staff", "Availability", "TimeOff", "StaffService",
     "Payment", "Notification", "Subscription", "Location"}
Models == tenantModels \cup {"User", "Tenant", "RefreshToken"}
PrismaActions ==
    {"findMany", "findFirst", "findUnique", "create", "update", "delete",
     "updateMany", "deleteMany", "count", "aggregate", "upsert", "createMany"}

\* A variant that builds the filter from the tenant alone.
tenantOnly(where, tenantId) == Some([id |-> Undefined, tenantId |-> tenantId])

\* { ...where, tenantId }
spreadWithTenant(where, tenantId) ==
    IF IsNone(where) THEN Some([id |-> Undefined, tenantId |-> tenantId])
    ELSE Some([Val(where) EXCEPT !.tenantId = tenantId])

Thrown(p) == [p EXCEPT !.stage = "thrown"]

\* Lines 5-23: the callback given to prisma.$use, up to its next(params).  A
\* call without args makes `params.args.where =` a TypeError.
middleware(tenantId, p) ==
    IF p.model \notin tenantModels THEN p
    ELSE IF p.action \in {"findMany", "findFirst", "findUnique", "update", "delete",
                          "updateMany", "deleteMany"}
         THEN IF IsNone(p.args) THEN Thrown(p)
              ELSE [p EXCEPT !.args =
                       Some([Val(p.args) EXCEPT
                               !.where = spreadWithTenant(Val(p.args).where, tenantId)])]
    ELSE IF p.action = "create"
         THEN IF IsNone(p.args) \/ IsNone(Val(p.args).data) THEN Thrown(p)
              ELSE [p EXCEPT !.args =
                       Some([Val(p.args) EXCEPT
                               !.data = Some([Val(Val(p.args).data) EXCEPT
                                                 !.tenantId = tenantId])])]
    ELSE p

\* The middlewares run in the order of their $use, each handing its params on.
RECURSIVE throughMiddlewares(_, _)
throughMiddlewares(i, p) ==
    IF i > Len(middlewares) \/ p.stage = "thrown" THEN p
    ELSE throughMiddlewares(i + 1, middleware(middlewares[i], p))

\* Lines 4-25: prisma.$use(...) on the shared client.
prismaWithTenant(tenantId) ==
    /\ Len(middlewares) < MaxGuards
    /\ middlewares' = Append(middlewares, tenantId)
    /\ UNCHANGED <<authVars, params, now, services, staff, users, staffService, availability,
                   timeOff, appointments, notifications, procs>>

\* prisma.<model>.<action>(args), on the client that prismaWithTenant(tenantId)
\* returned to the caller: the one shared client.
ClientCall(tenantId, model, action, args) ==
    /\ params = None
    /\ \E i \in DOMAIN middlewares : middlewares[i] = tenantId
    /\ params' = Some([stage |-> "called", forTenant |-> tenantId, model |-> model,
                       action |-> action, args |-> args])
    /\ UNCHANGED <<authVars, middlewares, now, services, staff, users, staffService,
                   availability, timeOff, appointments, notifications, procs>>

\* The call passes the middlewares and reaches the query engine, or throws.
RunMiddlewares ==
    /\ params # None
    /\ Val(params).stage = "called"
    /\ LET out == throughMiddlewares(1, Val(params))
       IN  params' = Some(IF out.stage = "thrown" THEN out
                          ELSE [out EXCEPT !.stage = "engine"])
    /\ UNCHANGED <<authVars, middlewares, now, services, staff, users, staffService,
                   availability, timeOff, appointments, notifications, procs>>

CallReturns ==
    /\ params # None
    /\ Val(params).stage \in {"engine", "thrown"}
    /\ params' = None
    /\ UNCHANGED <<authVars, middlewares, now, services, staff, users, staffService,
                   availability, timeOff, appointments, notifications, procs>>

(***************************************************************************)
(* SpecGuard: guards are installed and client calls of every model and     *)
(* action go through them.                                                 *)
(***************************************************************************)
GuardFilters ==
    {None} \cup {Some([id |-> i, tenantId |-> t]) :
                    i \in {Undefined, "a1"}, t \in {Undefined} \cup Tenants}
GuardPayloads ==
    {None} \cup {Some([title |-> "Cut", tenantId |-> t]) : t \in {Undefined} \cup Tenants}
GuardArgs ==
    {None} \cup {Some([where |-> w, data |-> d]) : w \in GuardFilters, d \in GuardPayloads}

InitGuard ==
    /\ InitStore
    /\ availability = {}

NextGuard ==
    \/ \E t \in Tenants : prismaWithTenant(t)
    \/ /\ params = None
       /\ \E t \in Tenants, m \in Models, a \in PrismaActions, args \in GuardArgs :
              ClientCall(t, m, a, args)
    \/ RunMiddlewares
    \/ CallReturns

SpecGuard == InitGuard /\ [][NextGuard]_vars


(***************************************************************************)
(* Auth controller: the handlers that issue the access_token cookie.       *)
(* A user's email stands for the user's id; each handler reads the tables  *)
(* and writes them in one step.                                            *)
(***************************************************************************)
Null == "null"
MaxTenants == 3
TenantIds == {"t1", "t2", "t3", "t4"}
AuthEmails == {"u1", "u2", "u3"}
AuthPasswords == {"", "short", "longenough"}
PasswordLength(password) ==
    IF password = "" THEN 0 ELSE IF password = "short" THEN 5 ELSE 10

makePayload(userId, tenantId, role) ==
    [userId |-> userId, tenantId |-> tenantId, role |-> role]

\* prisma.user.create with the column default of User.role
createUser(email) ==
    [id \in DOMAIN users \cup {email} |->
        IF id = email THEN [deletedAt |-> None, role |-> "CLIENT"] ELSE users[id]]

tenantLinks(userId) == {l \in tenantUsers : l.userId = userId}
findTenantUser(tenantId, userId) ==
    {l \in tenantUsers : l.tenantId = tenantId /\ l.userId = userId}

setAuthCookies(p, payload) == cookies' = [cookies EXCEPT ![p] = Some(payload)]

AuthFail(p, op, status, msg) ==
    /\ Respond(p, Reply(op, Fail(status, msg)))
    /\ UNCHANGED <<authVars, users>>

RegisterBusiness(p, businessName, email, password) ==
    /\ Cardinality(tenants) < MaxTenants
    /\ IF businessName = "" \/ password = ""
       THEN AuthFail(p, "registerBusiness", 400,
                     "businessName, email and password are required")
       ELSE IF PasswordLength(password) < 8
       THEN AuthFail(p, "registerBusiness", 400,
                     "Password must be at least 8 characters")
       ELSE IF email \in DOMAIN users
       THEN AuthFail(p, "registerBusiness", 409, "Email already registered")
       ELSE LET tenant == CHOOSE t \in TenantIds \ tenants : TRUE
            IN  /\ tenants' = tenants \cup {tenant}
                /\ users' = createUser(email)
                /\ tenantUsers' = tenantUsers \cup
                       {[tenantId |-> tenant, userId |-> email, role |-> "OWNER"]}
                /\ setAuthCookies(p, makePayload(email, tenant, "OWNER"))
                /\ Respond(p, Reply("registerBusiness",
                                    Ok(201, "Business and owner registered")))
    /\ UNCHANGED <<middlewares, params, now, services, staff, staffService,
                   availability, timeOff, appointments, notifications>>

\* tenantId: the body's tenantId, None when the body names no tenant
RegisterClient(p, email, password, tenantId) ==
    /\ IF password = ""
       THEN AuthFail(p, "registerClient", 400, "email and password required")
       ELSE IF email \in DOMAIN users
       THEN AuthFail(p, "registerClient", 409, "Email already registered")
       ELSE IF ~IsNone(tenantId) /\ Val(tenantId) \notin tenants
       THEN AuthFail(p, "registerClient", 404, "Tenant not found")
       ELSE /\ users' = createUser(email)
            /\ setAuthCookies(p, makePayload(email,
                   IF IsNone(tenantId) THEN Null ELSE Val(tenantId), "CLIENT"))
            /\ Respond(p, Reply("registerClient", Ok(201, "Client registered")))
            /\ UNCHANGED <<tenants, tenantUsers>>
    /\ UNCHANGED <<middlewares, params, now, services, staff, staffService,
                   availability, timeOff, appointments, notifications>>

\* valid: what bcrypt.compare answers for the password of the body.
\* first: the link the include puts at tenantLinks[0], in no stated order.
Login(p, email, password, valid, preferredTenantId) ==
    /\ IF password = ""
       THEN AuthFail(p, "login", 400, "Missing credentials")
       ELSE IF email \notin DOMAIN users \/ ~valid
       THEN AuthFail(p, "login", 401, "Invalid credentials")
       ELSE IF ~IsNone(preferredTenantId)
               /\ findTenantUser(Val(preferredTenantId), email) = {}
       THEN AuthFail(p, "login", 403, "Not a member of requested tenant")
       ELSE \E first \in {Some(l) : l \in tenantLinks(email)} \cup {None} :
                /\ IsNone(first) <=> tenantLinks(email) = {}
                /\ LET activeTenantId ==
                           IF ~IsNone(preferredTenantId) THEN Val(preferredTenantId)
                           ELSE IF ~IsNone(first) THEN Val(first).tenantId
                           ELSE Null
                   IN  setAuthCookies(p, makePayload(email, activeTenantId,
                                                     users[email].role))
                /\ Respond(p, Reply("login", Ok(200, "Login successful")))
                /\ UNCHANGED <<tenants, tenantUsers, users>>
    /\ UNCHANGED <<middlewares, params, now, services, staff, staffService,
                   availability, timeOff, appointments, notifications>>

\* req.user is the payload of the access_token cookie (authMiddleware)
SwitchTenant(p, targetTenantId) ==
    /\ IF IsNone(cookies[p])
       THEN AuthFail(p, "switchTenant", 401, "Unauthorized")
       ELSE LET user == authMiddleware(Val(cookies[p]))
                link == findTenantUser(targetTenantId, user.userId)
            IN  IF link = {}
                THEN AuthFail(p, "switchTenant", 403, "Not a member of tenant")
                ELSE /\ setAuthCookies(p, makePayload(user.userId, targetTenantId,
                                           (CHOOSE l \in link : TRUE).role))
                     /\ Respond(p, Reply("switchTenant", Ok(200, "Switched tenant")))
                     /\ UNCHANGED <<tenants, tenantUsers, users>>
    /\ UNCHANGED <<middlewares, params, now, services, staff, staffService,
                   availability, timeOff, appointments, notifications>>

\* tenantMiddleware, as it would answer if a route mounted it
tenantMiddleware(user) ==
    IF user.tenantId = Null
    THEN Fail(400, "Tenant not resolved")
    ELSE Pass

\* The requests the mounted routers serve to the holder of an access token.
RoutedRequestBy(token) ==
    \/ \E b \in FenceServiceBodies : CreateService(1, serviceRoute(token), "s3", b)
    \/ ListServices(1, serviceRoute(token))
    \/ \E id \in FenceServiceIds : GetService(1, serviceRoute(token), id)
    \/ \E id \in FenceServiceIds : DeleteService(1, serviceRoute(token), id)
    \/ \E b \in FenceStaffBodies : CreateStaff(1, staffRoute(token), "st3", b)
    \/ ListStaff(1, staffRoute(token))
    \/ \E id \in FenceStaffIds : GetStaff(1, staffRoute(token), id)
    \/ \E id \in FenceStaffIds : DeleteStaff(1, staffRoute(token), id)

\* the access token the user agent of process p sends, if it holds one
CookieTokens(p) == IF IsNone(cookies[p]) THEN {} ELSE {Val(cookies[p])}

InitAuth == InitStore /\ availability = {}

NextAuth ==
    \/ Finish(1)
    \/ \E n \in {"", "Salon"}, e \in AuthEmails, pw \in AuthPasswords :
           RegisterBusiness(1, n, e, pw)
    \/ \E e \in AuthEmails, pw \in AuthPasswords, t \in {None} \cup {Some(x) : x \in TenantIds} :
           RegisterClient(1, e, pw, t)
    \/ \E e \in AuthEmails, pw \in AuthPasswords, valid \in BOOLEAN,
          t \in {None} \cup {Some(x) : x \in TenantIds} :
           Login(1, e, pw, valid, t)
    \/ \E t \in TenantIds : SwitchTenant(1, t)
    \/ \E token \in CookieTokens(1) : RoutedRequestBy(token)

SpecAuth == InitAuth /\ [][NextAuth]_vars


(***************************************************************************)
(* Properties                                                              *)
(***************************************************************************)
Active(a) == a.status \in {"PENDING", "CONFIRMED"}
Overlap(a, b) == a.start < b.end /\ b.start < a.end
Completes(p, ops) ==
    /\ procs[p].pc # "done"
    /\ procs'[p].pc = "done"
    /\ procs'[p].op \in ops
\* The rows a step inserts or whose interval it changes.
WrittenIntervals ==
    {i \in DOMAIN appointments' :
        \/ i \notin DOMAIN appointments
        \/ appointments'[i].start # appointments[i].start
        \/ appointments'[i].end # appointments[i].end}

\* C1: any two distinct stored appointments of the same staff member that are
\* both PENDING or CONFIRMED have non-overlapping intervals.
C1_NoStaffDoubleBooking ==
    \A i, j \in DOMAIN appointments :
        (/\ i # j
         /\ appointments[i].staffId = appointments[j].staffId
         /\ Active(appointments[i])
         /\ Active(appointments[j]))
        => ~Overlap(appointments[i], appointments[j])

\* C2: any two distinct stored appointments of the same client that are both
\* PENDING or CONFIRMED have non-overlapping intervals.
C2_NoClientDoubleBooking ==
    \A i, j \in DOMAIN appointments :
        (/\ i # j
         /\ appointments[i].clientId = appointments[j].clientId
         /\ Active(appointments[i])
         /\ Active(appointments[j]))
        => ~Overlap(appointments[i], appointments[j])

\* C3: when two createAppointment requests were in flight together and both
\* have answered 201, the store holds no two live appointments of one staff
\* member with overlapping intervals: at most one of two racing requests for
\* the same slot inserts.
C3_AtMostOneRacingCreate ==
    (\A p \in Procs :
        /\ procs[p].pc = "done"
        /\ procs[p].op = "createAppointment"
        /\ procs[p].status = 201)
    => ~\E i, j \in DOMAIN appointments :
           /\ i < j
           /\ appointments[i].staffId = appointments[j].staffId
           /\ appointments[i].status # "CANCELLED"
           /\ appointments[j].status # "CANCELLED"
           /\ Overlap(appointments[i], appointments[j])

\* C4: a request sent with a token of tenant A leaves every service, staff
\* member, appointment and staff-service link of another tenant as it was,
\* and its response carries rows of tenant A only.
ForeignLink(l, tenantId) ==
    \/ l[1] \in DOMAIN staff /\ staff[l[1]].tenantId # tenantId
    \/ l[2] \in DOMAIN services /\ services[l[2]].tenantId # tenantId
FenceHolds(tenantId) ==
    /\ \A id \in DOMAIN services :
           services[id].tenantId # tenantId
           => id \in DOMAIN services' /\ services'[id] = services[id]
    /\ \A id \in DOMAIN staff :
           staff[id].tenantId # tenantId
           => id \in DOMAIN staff' /\ staff'[id] = staff[id]
    /\ \A i \in DOMAIN appointments :
           appointments[i].tenantId # tenantId
           => i \in DOMAIN appointments' /\ appointments'[i] = appointments[i]
    /\ \A l \in staffService \cup staffService' :
           ForeignLink(l, tenantId) => (l \in staffService <=> l \in staffService')
    /\ procs'[1].pc = "done" => procs'[1].rows \subseteq {tenantId}
C4_TenantFence ==
    [][\A token \in Tokens : RequestBy(token) => FenceHolds(token.tenantId)]_vars

\* C5: every appointment a step inserts, and every appointment whose interval
\* a step changes, spans exactly the duration minutes that the service it
\* references has at that step.
C5_DurationLawAtWrite ==
    [][\A i \in WrittenIntervals :
           appointments'[i].end - appointments'[i].start
               = services[appointments'[i].serviceId].duration * MsPerMinute]_vars

\* C6: the interval of every stored appointment of a staff member who has an
\* availability record lies inside one of those records: inside the window of
\* a recurring record on its weekday, or inside the range of a one-off record.
Contained(av, a) ==
    IF av.type = "ONE_OFF"
    THEN Val(av.startDate) <= a.start /\ a.end <= Val(av.endDate)
    ELSE LET midnight == a.start - (a.start % MsPerDay)
         IN  /\ getUTCDay(a.start) = Val(av.dayOfWeek)
             /\ midnight + Val(hhmmToMinutes(av.startTime)).v * MsPerMinute <= a.start
             /\ a.end <= midnight + Val(hhmmToMinutes(av.endTime)).v * MsPerMinute
C6_InsideAvailability ==
    \A i \in DOMAIN appointments :
        LET a == appointments[i]
            records == {av \in availability :
                           /\ av.staffId = a.staffId
                           /\ av.tenantId = a.tenantId
                           /\ IsNone(av.deletedAt)}
        IN  records # {} => \E av \in records : Contained(av, a)

\* C7: no step inserts an appointment, or moves one to an interval, that
\* touches a time-off record of its staff member, whatever the availability
\* records say: such a request is rejected and writes nothing.
C7_BlackoutPrecedence ==
    [][\A i \in WrittenIntervals :
           ~\E k \in DOMAIN timeOff :
               /\ timeOff[k].staffId = appointments'[i].staffId
               /\ timeOff[k].tenantId = appointments'[i].tenantId
               /\ timeOff[k].start <= appointments'[i].end
               /\ timeOff[k].end >= appointments'[i].start]_vars
\* A booking was refused for the time off of a staff member who has an
\* availability window.
C7_Witness ==
    /\ availability # {}
    /\ procs[1].pc = "done"
    /\ procs[1].op = "createAppointment"
    /\ procs[1].status = 409
    /\ procs[1].msg = "Staff is on time off during requested time"
    /\ appointments = << >>

\* C8: in every state each stored appointment has exactly one booking_created
\* notification that references it, and every booking_created notification
\* references a stored appointment.
C8_AppointmentWithNotification ==
    /\ \A i \in DOMAIN appointments :
           Cardinality({n \in DOMAIN notifications :
                           /\ notifications[n].type = "booking_created"
                           /\ notifications[n].appointmentId = i}) = 1
    /\ \A n \in DOMAIN notifications :
           notifications[n].type = "booking_created"
           => notifications[n].appointmentId \in DOMAIN appointments
\* The transaction failed after an earlier booking had committed.
C8_Witness ==
    /\ Len(appointments) >= 1
    /\ procs[1].pc = "done"
    /\ procs[1].op = "createAppointment"
    /\ procs[1].status = 500

\* C9: a step that ends createAppointment or updateAppointment with a failure
\* leaves the appointments and the notifications as they were, and a step
\* that changes either table is the last step of a request that succeeds.
C9_FailureWritesNothing ==
    [][/\ \A p \in Procs :
              (Completes(p, {"createAppointment", "updateAppointment"})
               /\ procs'[p].status >= 400)
              => appointments' = appointments /\ notifications' = notifications
       /\ (appointments' # appointments \/ notifications' # notifications)
          => \E p \in Procs :
                 /\ Completes(p, {"createAppointment", "updateAppointment",
                                  "cancelAppointment"})
                 /\ procs'[p].status \in {200, 201}]_vars
\* A reschedule was refused for a conflict while the store held two bookings.
C9_Witness ==
    /\ Len(appointments) >= 2
    /\ procs[1].pc = "done"
    /\ procs[1].op = "updateAppointment"
    /\ procs[1].status = 409

\* C10: a cancel request for an appointment that is CANCELLED, or is not in
\* the caller's tenant, answers 404 "not found or already cancelled" and
\* changes nothing; for a PENDING or CONFIRMED appointment it answers 200,
\* sets the status to CANCELLED and stamps canceledAt, and changes no other row.
C10_CancelExactlyOnce ==
    [][\A p \in Procs, id \in 1..MaxAppts, t \in Tenants :
           CancelAppointment(p, t, id)
           => IF /\ id \in DOMAIN appointments
                 /\ appointments[id].tenantId = t
                 /\ Active(appointments[id])
              THEN /\ procs'[p].status = 200
                   /\ appointments' =
                          [appointments EXCEPT ![id].status = "CANCELLED",
                                               ![id].canceledAt = Some(now)]
              ELSE IF \/ id \notin DOMAIN appointments
                      \/ appointments[id].tenantId # t
                      \/ appointments[id].status = "CANCELLED"
              THEN /\ procs'[p].status = 404
                   /\ procs'[p].msg = "Appointment not found or already cancelled"
                   /\ appointments' = appointments
              ELSE TRUE]_vars
\* The one stored appointment is CANCELLED; of two cancel requests one has
\* answered 200 and the other 404.
C10_Witness ==
    /\ Len(appointments) = 1
    /\ appointments[1].status = "CANCELLED"
    /\ \A p \in Procs : procs[p].pc = "done" /\ procs[p].op = "cancelAppointment"
    /\ {procs[p].status : p \in Procs} = {200, 404}

\* C11: a reschedule is refused for a staff or client conflict only when an
\* appointment other than the rescheduled one is PENDING or CONFIRMED, has the
\* same staff member or the same client, and overlaps the new interval; the
\* appointment's own interval never counts against it.
C11_SelfOverlapAllowed ==
    [][\A p \in Procs :
           (/\ procs[p].pc \in {"staffConflict", "clientConflict"}
            /\ procs[p].op = "updateAppointment"
            /\ procs'[p].pc = "done"
            /\ procs'[p].status = 409)
           => \E j \in DOMAIN appointments :
                  /\ j # procs[p].id
                  /\ Active(appointments[j])
                  /\ \/ appointments[j].staffId = procs[p].staffId
                     \/ appointments[j].clientId = procs[p].clientId
                  /\ appointments[j].start < procs[p].endDate
                  /\ appointments[j].end > procs[p].startDate]_vars
\* Both conflict checks have passed for a new interval that overlaps the
\* current interval of the live appointment being rescheduled.
C11_Witness ==
    /\ procs[1].pc = "write"
    /\ procs[1].op = "updateAppointment"
    /\ procs[1].reschedule
    /\ Active(appointments[procs[1].id])
    /\ appointments[procs[1].id].start < procs[1].endDate
    /\ appointments[procs[1].id].end > procs[1].startDate

\* C12: every change of an appointment's status follows the lifecycle table:
\* PENDING goes to CONFIRMED, CANCELLED or RESCHEDULED; CONFIRMED goes to
\* CANCELLED, COMPLETED, NO_SHOW or RESCHEDULED; the status of a CANCELLED,
\* COMPLETED or NO_SHOW appointment never changes.
C12_Lifecycle ==
    [][\A i \in DOMAIN appointments :
           i \in DOMAIN appointments'
           => LET from == appointments[i].status
                  to == appointments'[i].status
              IN  \/ from = to
                  \/ from = "PENDING" /\ to \in {"CONFIRMED", "CANCELLED", "RESCHEDULED"}
                  \/ /\ from = "CONFIRMED"
                     /\ to \in {"CANCELLED", "COMPLETED", "NO_SHOW", "RESCHEDULED"}]_vars

C14_AssignedAtCreation ==
    [][\A i \in DOMAIN appointments' :
           i \notin DOMAIN appointments
           => <<appointments'[i].staffId, appointments'[i].serviceId>> \in staffService]_vars

\* C15: an update that carries no start and no end goes from the lookup of
\* the appointment straight to the write, with no duration, availability,
\* time-off or conflict step in between; that write answers 200 and leaves
\* the appointment's start and end as they were.
C15_NoRevalidation ==
    [][/\ \A id \in 1..MaxAppts, b \in EditUpdateBodies, role \in {"OWNER", "CLIENT"} :
              UpdateAppointmentFind(1, Caller(role), "t1", id, b)
              => \/ procs'[1].pc = "write"
                 \/ procs'[1].pc = "done" /\ procs'[1].status \in {403, 404}
       /\ (UpdateAppointmentWrite(1) /\ ~procs[1].reschedule)
          => /\ procs'[1].pc = "done"
             /\ procs'[1].status = 200
             /\ appointments'[procs[1].id].start = appointments[procs[1].id].start
             /\ appointments'[procs[1].id].end = appointments[procs[1].id].end]_vars
\* A note and a status were written to a booking whose staff member is no
\* longer linked to its service.
C15_Witness ==
    /\ procs[1].pc = "done"
    /\ procs[1].op = "updateAppointment"
    /\ procs[1].status = 200
    /\ Len(appointments) >= 1
    /\ appointments[1].notes = Some("call first")
    /\ appointments[1].status = "CONFIRMED"
    /\ <<"st1", "s1">> \notin staffService

\* C16: every stored appointment ends after it starts, in every state; and
\* every interval a step inserts, or moves an appointment to, ends after it
\* starts and starts no earlier than the clock of the request.
C16_ValidInterval ==
    /\ [](\A i \in DOMAIN appointments : appointments[i].end > appointments[i].start)
    /\ [][\A i \in WrittenIntervals :
              /\ appointments'[i].end > appointments'[i].start
              /\ appointments'[i].start >= now]_vars
\* A request with end = start was refused while a booking was stored.
C16_Witness ==
    /\ Len(appointments) >= 1
    /\ procs[1].pc = "done"
    /\ procs[1].op = "createAppointment"
    /\ procs[1].status = 400
    /\ procs[1].msg = "end must be after start"

\* C17: a createAppointment request of tenant t1 with valid dates ends at once
\* with 404 and changes neither table when its service is absent, inactive,
\* soft-deleted or of another tenant, when its staff member is absent,
\* soft-deleted or of another tenant, or when its client is absent or
\* soft-deleted.
Unusable(rows, id, tenantId) ==
    \/ id \notin DOMAIN rows
    \/ rows[id].tenantId # tenantId
    \/ rows[id].deletedAt # None
C17_NotFound ==
    [][\A b \in EditCreateBodies :
           (/\ CreateAppointmentLoad(1, "t1", b)
            /\ \/ Unusable(services, b.serviceId, "t1")
               \/ ~services[b.serviceId].active
               \/ Unusable(staff, b.staffId, "t1")
               \/ b.clientId \notin DOMAIN users
               \/ users[b.clientId].deletedAt # None)
           => /\ procs'[1].pc = "done"
              /\ procs'[1].status = 404
              /\ appointments' = appointments
              /\ notifications' = notifications]_vars
\* A booking was refused with 404 for a service that is inactive and not deleted.
C17_Witness ==
    /\ procs[1].pc = "done"
    /\ procs[1].op = "createAppointment"
    /\ procs[1].status = 404
    /\ procs[1].msg = "Service not found"
    /\ ~services["s1"].active
    /\ services["s1"].deletedAt = None

\* C18: a createAppointment request refused because the staff member does
\* not provide the service is answered with status 409.
C18_NotAssignedIsConflict ==
    \A p \in Procs :
        (/\ procs[p].pc = "done"
         /\ procs[p].op = "createAppointment"
         /\ procs[p].msg = "Selected staff does not provide this service")
        => procs[p].status = 409

\* C19: no step removes an appointment: the stored ids only grow; and a step
\* that completes cancelAppointment changes no field of any appointment but
\* status and canceledAt.
C19_NeverDeleted ==
    [][/\ DOMAIN appointments \subseteq DOMAIN appointments'
       /\ \A p \in Procs :
              Completes(p, {"cancelAppointment"})
              => \A i \in DOMAIN appointments :
                     appointments'[i]
                         = [appointments[i] EXCEPT
                                !.status = appointments'[i].status,
                                !.canceledAt = appointments'[i].canceledAt]]_vars
\* The first of two stored bookings has been cancelled and is still stored.
C19_Witness ==
    /\ Len(appointments) = 2
    /\ appointments[1].status = "CANCELLED"
    /\ appointments[1].canceledAt # None
    /\ procs[1].pc = "done"
    /\ procs[1].op = "cancelAppointment"
    /\ procs[1].status = 200

\* C20: a create, update, delete or assignment request on services or staff
\* sent with a token whose role is neither OWNER nor ADMIN is answered 403,
\* whatever its target and body, and leaves the services, the staff and the
\* staff-service links as they were.
PrivilegedRequestBy(token) ==
    \/ \E b \in FenceServiceBodies : CreateService(1, serviceRoute(token), "s3", b)
    \/ \E id \in FenceServiceIds, b \in FenceServiceBodies :
           UpdateService(1, serviceRoute(token), id, b)
    \/ \E id \in FenceServiceIds : DeleteService(1, serviceRoute(token), id)
    \/ \E id \in FenceServiceIds, staffId \in DOMAIN staff :
           AssignStaff(1, serviceRoute(token), id, staffId)
    \/ \E b \in FenceStaffBodies : CreateStaff(1, staffRoute(token), "st3", b)
    \/ \E id \in FenceStaffIds, b \in FenceStaffBodies :
           UpdateStaff(1, staffRoute(token), id, b)
    \/ \E id \in FenceStaffIds : DeleteStaff(1, staffRoute(token), id)
    \/ \E id \in FenceStaffIds, serviceId \in FenceServiceIds :
           AssignService(1, staffRoute(token), id, serviceId)
    \/ \E id \in FenceStaffIds, serviceId \in FenceServiceIds :
           UnassignService(1, staffRoute(token), id, serviceId)
C20_Forbidden ==
    [][\A token \in Tokens :
           (token.role \notin {"OWNER", "ADMIN"} /\ PrivilegedRequestBy(token))
           => /\ procs'[1].pc = "done"
              /\ procs'[1].status = 403
              /\ services' = services
              /\ staff' = staff
              /\ staffService' = staffService]_vars
\* A CLIENT's request to delete a service that exists was answered 403.
C20_Witness ==
    /\ procs[1].pc = "done"
    /\ procs[1].op = "deleteService"
    /\ procs[1].status = 403
    /\ services["s2"].deletedAt = None

\* The position of a request in its handler: every step moves it forward.
Rank(pc) ==
    CASE pc = "idle" -> 0
      [] pc \in {"assigned", "service"} -> 1
      [] pc = "avail" -> 2
      [] pc = "staffConflict" -> 3
      [] pc = "clientConflict" -> 4
      [] pc \in {"tx", "write"} -> 5
      [] OTHER -> 6
InFlight(p) == procs[p].pc \notin {"idle", "done"}
Answered(p) ==
    /\ procs[p].pc = "done"
    /\ procs[p].op \in {"createAppointment", "updateAppointment", "cancelAppointment"}
    /\ procs[p].status \in {200, 201, 400, 403, 404, 409, 500}

\* C21: every create, update or cancel request that has been received is
\* eventually answered with a success or a typed failure, also while another
\* request is in flight; each step moves the request forward through its
\* handler (so its reads are bounded by the handler's length), and the only
\* step of a request that writes to the store is its last one.
C21_EveryRequestFinishes ==
    /\ \A p \in Procs : InFlight(p) ~> Answered(p)
    /\ [][\A p \in Procs :
             /\ (procs'[p] # procs[p] /\ procs[p].pc # "done")
                => Rank(procs'[p].pc) > Rank(procs[p].pc)
             /\ (InFlight(p) /\ procs'[p] # procs[p]
                   /\ <<appointments', notifications'>> # <<appointments, notifications>>)
                => procs'[p].pc = "done"]_vars

\* Both requests were in flight together and one has been answered after its
\* write while the other is still on its way.
C21_Witness ==
    /\ Answered(1)
    /\ procs[1].op = "updateAppointment"
    /\ procs[1].status = 200
    /\ InFlight(2)
    /\ procs[2].op = "createAppointment"
    /\ procs[2].pc = "tx"

\* C28: a write that a request commits (the insert of createAppointment, or
\* the update of a rescheduling updateAppointment) leaves the written
\* appointment, if it is PENDING or CONFIRMED, overlapping no other PENDING
\* or CONFIRMED appointment of its staff member or its client: of a
\* reschedule racing a create or another reschedule for one slot, at most
\* one commits.
C28_RescheduleIsolated ==
    [][\A i \in WrittenIntervals :
           Active(appointments'[i])
           => ~\E j \in DOMAIN appointments' :
                  /\ j # i
                  /\ Active(appointments'[j])
                  /\ \/ appointments'[j].staffId = appointments'[i].staffId
                     \/ appointments'[j].clientId = appointments'[i].clientId
                  /\ Overlap(appointments'[i], appointments'[j])]_vars

\* An appointment other than the excluded one, of the request's tenant and of
\* the same staff member (or client), PENDING or CONFIRMED, that starts
\* before the candidate ends and ends after the candidate starts.
Blocking(subject, q, excluded) ==
    \E i \in DOMAIN appointments :
        /\ i \notin excluded
        /\ appointments[i].tenantId = q.tenantId
        /\ IF subject = "staff" THEN appointments[i].staffId = q.staffId
           ELSE appointments[i].clientId = q.clientId
        /\ appointments[i].status \in {"PENDING", "CONFIRMED"}
        /\ appointments[i].start < q.endDate
        /\ appointments[i].end > q.startDate
Rejected(status) == procs'[1].pc = "done" /\ procs'[1].status = status

\* C22: the staff and the client conflict steps of createAppointment and of
\* a rescheduling updateAppointment answer 409 exactly when a blocking
\* appointment exists for that subject (the update excluding the appointment
\* being moved), and pass the request on otherwise.
C22_ConflictExactly ==
    [][/\ CreateAppointmentStaffConflict(1)
            => (Rejected(409) <=> Blocking("staff", procs[1], {}))
       /\ CreateAppointmentClientConflict(1)
            => (Rejected(409) <=> Blocking("client", procs[1], {}))
       /\ UpdateAppointmentStaffConflict(1)
            => (Rejected(409) <=> Blocking("staff", procs[1], {procs[1].id}))
       /\ UpdateAppointmentClientConflict(1)
            => (Rejected(409) <=> Blocking("client", procs[1], {procs[1].id}))]_vars

\* A create has passed both conflict steps although a PENDING appointment of
\* its staff member and client ends exactly where the candidate starts.
C22_Witness ==
    /\ procs[1].pc = "tx"
    /\ \E i \in DOMAIN appointments :
           /\ appointments[i].staffId = procs[1].staffId
           /\ appointments[i].clientId = procs[1].clientId
           /\ appointments[i].tenantId = procs[1].tenantId
           /\ appointments[i].status = "PENDING"
           /\ appointments[i].end = procs[1].startDate

\* An HH:MM text: two pieces of digits, an hour below 24 and a minute below 60.
WellFormed(text) ==
    /\ text # None
    /\ Len(Val(text)) = 2
    /\ \A i \in {1, 2} : Val(text)[i].kind = "digits"
    /\ Val(text)[1].v < 24
    /\ Val(text)[2].v < 60
MinutesOfDay(t) == (t % MsPerDay) \div MsPerMinute
\* The weekly window as the text states it, for a record of hours h1 to h2.
InWeeklyWindow(av, startDate, endDate) ==
    LET from == Val(av.startTime)[1].v * 60 + Val(av.startTime)[2].v
        to == Val(av.endTime)[1].v * 60 + Val(av.endTime)[2].v
    IN  /\ ((startDate \div MsPerDay) + 4) % 7 = Val(av.dayOfWeek)
        /\ from <= MinutesOfDay(startDate) /\ MinutesOfDay(startDate) <= to
        /\ from <= MinutesOfDay(endDate) /\ MinutesOfDay(endDate) <= to
WeeklyOnly ==
    /\ timeOff = << >>
    /\ \E av \in availability :
           /\ availability = {av}
           /\ av.type = "RECURRING"
           /\ WellFormed(av.startTime)
           /\ WellFormed(av.endTime)
AvailabilityStep ==
    CreateAppointmentAvailability(1) \/ UpdateAppointmentAvailability(1)

\* C23: with one weekly availability record of the staff member and no time
\* off, the availability step lets the candidate through exactly when the
\* UTC weekday of its start is the record's dayOfWeek (0 = Sunday to
\* 6 = Saturday) and the minutes since midnight of its start and of its end
\* both lie between the record's startTime and endTime.
C23_WeeklyWindowExactly ==
    [][(AvailabilityStep /\ WeeklyOnly)
          => \A av \in availability :
                 (procs'[1].pc = "staffConflict")
                 <=> InWeeklyWindow(av, procs[1].startDate, procs[1].endDate)]_vars

\* C24: with one weekly availability record and no time off, a candidate
\* whose end falls on a later UTC day than its start is not let through the
\* availability step.
C24_NoCrossMidnight ==
    [][(AvailabilityStep /\ WeeklyOnly
          /\ procs[1].endDate \div MsPerDay > procs[1].startDate \div MsPerDay)
          => procs'[1].pc # "staffConflict"]_vars

\* A TimeOff record of the request's staff member and tenant that starts no
\* later than the candidate ends and ends no earlier than it starts.
BlackedOut(q) ==
    \E i \in DOMAIN timeOff :
        /\ timeOff[i].staffId = q.staffId
        /\ timeOff[i].tenantId = q.tenantId
        /\ timeOff[i].start <= q.endDate
        /\ timeOff[i].end >= q.startDate
TimeOffRejection ==
    /\ Rejected(409)
    /\ procs'[1].msg = "Staff is on time off during requested time"

\* C25: the availability step of createAppointment and of a rescheduling
\* updateAppointment answers with the time-off rejection exactly when a
\* TimeOff record of that staff member in the tenant overlaps the candidate,
\* endpoints included.
C25_TimeOffExactly ==
    [][AvailabilityStep => (TimeOffRejection <=> BlackedOut(procs[1]))]_vars

\* The only TimeOff record ends at Saturday 12:00, where the earliest
\* candidate starts, and a request has met the time-off rejection.
C25_Witness ==
    /\ Len(timeOff) = 1
    /\ timeOff[1].staffId = "st1"
    /\ timeOff[1].end = SlotTime(2)
    /\ procs[1].pc = "done"
    /\ procs[1].status = 409
    /\ procs[1].msg = "Staff is on time off during requested time"

\* The staff member's availability records that hold the whole candidate.
Covering(q) ==
    {av \in availability :
        /\ av.staffId = q.staffId
        /\ av.tenantId = q.tenantId
        /\ av.deletedAt = None
        /\ \/ /\ av.type = "ONE_OFF"
              /\ Val(av.startDate) <= q.startDate
              /\ q.endDate <= Val(av.endDate)
           \/ /\ av.type = "RECURRING"
              /\ InWeeklyWindow(av, q.startDate, q.endDate)}
FirstTimeOff(q) ==
    LET hits == {i \in DOMAIN timeOff :
                    /\ timeOff[i].staffId = q.staffId
                    /\ timeOff[i].tenantId = q.tenantId
                    /\ timeOff[i].start <= q.endDate
                    /\ timeOff[i].end >= q.startDate}
    IN  timeOff[CHOOSE i \in hits : \A j \in hits : i <= j]

\* C26: when the candidate overlaps a TimeOff record of the staff member and
\* the staff member has availability records none of which holds the
\* candidate, the availability step answers with the time-off rejection,
\* carrying the reason of the first overlapping record, or "Time off" where
\* that record has none; the outside-availability message is not the answer.
C26_TimeOffReported ==
    [][(AvailabilityStep /\ BlackedOut(procs[1])
          /\ availability # {} /\ Covering(procs[1]) = {})
          => /\ TimeOffRejection
             /\ procs'[1].detail =
                    IF FirstTimeOff(procs[1]).reason = "" THEN "Time off"
                    ELSE FirstTimeOff(procs[1]).reason]_vars

\* Two TimeOff records overlap the candidate and the one-off availability
\* ended before it: the answer carries the first record's reason.
C26_Witness ==
    /\ availability # {}
    /\ \A av \in availability : /\ av.type = "ONE_OFF"
                               /\ ~IsNone(av.endDate)
                               /\ Val(av.endDate) <= SlotTime(2)
    /\ Len(timeOff) = 2
    /\ timeOff[1].staffId = "st1"
    /\ timeOff[1].end = SlotTime(3)
    /\ timeOff[1].reason = "Vacation"
    /\ procs[1].pc = "done"
    /\ procs[1].msg = "Staff is on time off during requested time"
    /\ procs[1].detail = "Vacation"

\* What the text's order makes of a body on arrival: the validation failure
\* before the lookup failure.
InvalidBody(b) ==
    \/ b.serviceId = "" \/ b.staffId = "" \/ b.clientId = ""
    \/ b.start.k # "date" \/ b.end.k # "date"
    \/ b.end.t <= b.start.t
    \/ b.start.t < now
UnknownParty(b) ==
    \/ b.serviceId \notin DOMAIN services
    \/ services[b.serviceId].tenantId # "t1"
    \/ b.staffId \notin DOMAIN staff
    \/ staff[b.staffId].tenantId # "t1"
    \/ b.clientId \notin DOMAIN users
\* The message of the first check, in the text's order, that the request in
\* flight fails against the store; "" when it fails none.
FirstFailure(q) ==
    IF <<q.staffId, q.serviceId>> \notin staffService
    THEN "Selected staff does not provide this service"
    ELSE IF q.endDate - q.startDate # services[q.serviceId].duration * 60000
    THEN "End time must be exactly duration minutes after start"
    ELSE IF Failed(validateStaffAvailabilityAndTimeOff(q.tenantId, q.staffId,
                                                       q.startDate, q.endDate))
    THEN validateStaffAvailabilityAndTimeOff(q.tenantId, q.staffId,
                                             q.startDate, q.endDate).msg
    ELSE IF Blocking("staff", q, {}) THEN "Staff already booked for this time slot"
    ELSE IF Blocking("client", q, {})
    THEN "Client already has an appointment in this time slot"
    ELSE ""
CreateStep ==
    \/ CreateAppointmentAssigned(1)
    \/ CreateAppointmentAvailability(1)
    \/ CreateAppointmentStaffConflict(1)
    \/ CreateAppointmentClientConflict(1)
    \/ CreateAppointmentTransaction(1, "none")

\* C27: createAppointment answers an invalid body with 400 before it looks
\* anything up, an unknown service, staff member or client with 404 before
\* any later check, and after that with the first failure in the order
\* staff-service link, duration, availability and time off, staff conflict,
\* client conflict; it inserts only when no check fails.
C27_FirstFailureReported ==
    [][/\ \A b \in CheckCreateBodies :
              CreateAppointmentLoad(1, "t1", b)
              => IF InvalidBody(b) THEN Rejected(400)
                 ELSE IF UnknownParty(b) THEN Rejected(404)
                 ELSE procs'[1].pc = "assigned"
       /\ (CreateStep /\ procs'[1].pc = "done")
              => IF FirstFailure(procs[1]) = "" THEN procs'[1].status = 201
                 ELSE /\ procs'[1].status \in {400, 409}
                      /\ procs'[1].msg = FirstFailure(procs[1])]_vars

\* The request fails every check after the lookup (no link, a service of
\* twice the candidate's length, time off, a booked slot) and is answered
\* with the missing link.
C27_Witness ==
    /\ <<"st1", "s1">> \notin staffService
    /\ services["s1"].duration = 12 * MinutesPerHour
    /\ timeOff # << >>
    /\ availability # {}
    /\ Len(appointments) = 1
    /\ procs[1].pc = "done"
    /\ procs[1].op = "createAppointment"
    /\ procs[1].msg = "Selected staff does not provide this service"

\* One tenant's guard is installed and a call on a tenant-scoped model has
\* just reached the query engine.
GuardedBy(t) ==
    /\ middlewares # << >>
    /\ \A i \in DOMAIN middlewares : middlewares[i] = t
ReachesEngine == RunMiddlewares /\ Val(params').stage = "engine"
FilteredActions ==
    {"findMany", "findFirst", "findUnique", "update", "delete", "updateMany",
     "deleteMany", "count", "aggregate", "upsert"}

\* C29: under the guard of tenant t, a call on a tenant-scoped model reaches
\* the query engine with where.tenantId = t when its action is a read, an
\* update or a delete (count and the other filtered actions included), and
\* with data.tenantId = t when it is create, whatever tenantId the caller
\* put there.
C29_GuardFencesEveryAction ==
    [][\A t \in Tenants :
           (ReachesEngine /\ GuardedBy(t) /\ Val(params).model \in tenantModels)
           => LET args == Val(params').args
              IN  /\ Val(params).action \in FilteredActions
                       => /\ args # None
                          /\ Val(args).where # None
                          /\ Val(Val(args).where).tenantId = t
                  /\ Val(params).action = "create"
                       => /\ args # None
                          /\ Val(args).data # None
                          /\ Val(Val(args).data).tenantId = t]_vars

\* The where and data of a call, a missing one read as its empty object.
FilterOf(p) ==
    IF p.args = None \/ Val(p.args).where = None
    THEN [id |-> Undefined, tenantId |-> Undefined]
    ELSE Val(Val(p.args).where)
PayloadOf(p) ==
    IF p.args = None \/ Val(p.args).data = None
    THEN [title |-> Undefined, tenantId |-> Undefined]
    ELSE Val(Val(p.args).data)

\* C30: a call on a model that is not tenant-scoped reaches the query engine
\* exactly as it was made; a call on a tenant-scoped model reaches it with
\* its model, its action, the id of its filter and the title of its payload
\* as they were made, and a payload it did not carry is not added.
C30_GuardChangesTenantIdOnly ==
    [][RunMiddlewares
          => LET in == Val(params)
                 out == Val(params')
             IN  /\ out.model = in.model
                 /\ out.action = in.action
                 /\ in.model \notin tenantModels
                      => out.stage = "engine" /\ out.args = in.args
                 /\ (in.model \in tenantModels /\ out.stage = "engine")
                      => /\ FilterOf(out).id = FilterOf(in).id
                         /\ PayloadOf(out).title = PayloadOf(in).title
                         /\ (in.args # None /\ Val(in.args).data = None)
                               => Val(out.args).data = None
                         /\ in.action \notin (FilteredActions \cup {"create"})
                               => out.args = in.args]_vars

\* Under the guard of t1, Appointment.findMany({ where: { id: "a1",
\* tenantId: "t2" } }) is at the engine with its id kept and tenantId t1;
\* its payload is the caller's.
C30_Witness ==
    /\ middlewares = <<"t1">>
    /\ params # None
    /\ Val(params).stage = "engine"
    /\ Val(params).model = "Appointment"
    /\ Val(params).action = "findMany"
    /\ Val(params).args =
           Some([where |-> Some([id |-> "a1", tenantId |-> "t1"]),
                 data |-> Some([title |-> "Cut", tenantId |-> "t2"])])

OneOffOnly ==
    /\ timeOff = << >>
    /\ \E av \in availability : availability = {av} /\ av.type = "ONE_OFF"

\* C31: with one one-off availability record of the staff member and no
\* time off, the availability step lets the candidate through exactly when
\* the record has a startDate and an endDate, its startDate is no later than
\* the candidate's start and the candidate's end is no later than its endDate.
C31_OneOffExactly ==
    [][(AvailabilityStep /\ OneOffOnly)
          => \A av \in availability :
                 (procs'[1].pc = "staffConflict")
                 <=> /\ av.startDate # None
                     /\ av.endDate # None
                     /\ Val(av.startDate) <= procs[1].startDate
                     /\ procs[1].endDate <= Val(av.endDate)]_vars

\* A candidate that fills the record's range from its first to its last
\* instant has passed the availability step.
C31_Witness ==
    /\ OneOffOnly
    /\ procs[1].pc = "staffConflict"
    /\ \E av \in availability :
           /\ av.startDate = Some(procs[1].startDate)
           /\ av.endDate = Some(procs[1].endDate)

\* Two pieces of digits, hours below 24 and minutes below 60.
WeeklyRecordsOnly ==
    /\ timeOff = << >>
    /\ availability # {}
    /\ \A av \in availability : av.type = "RECURRING"

\* C35: with weekly availability records only and no time off, the
\* availability step never answers 500, and it lets the candidate through
\* exactly when one of the records whose startTime and endTime are both
\* well-formed HH:MM texts covers it: a record with a malformed time
\* matches no candidate and does not keep the other records from being
\* tried.
C35_MalformedNeverMatches ==
    [][(AvailabilityStep /\ WeeklyRecordsOnly)
          => /\ ~Rejected(500)
             /\ (procs'[1].pc = "staffConflict")
                <=> \E av \in availability :
                        /\ WellFormed(av.startTime)
                        /\ WellFormed(av.endTime)
                        /\ isWithinRecurringAvailability(av, procs[1].startDate,
                                                         procs[1].endDate)]_vars

\* The actions whose filter or payload the guard rewrites.
GuardedActions ==
    {"findMany", "findFirst", "findUnique", "update", "delete", "updateMany",
     "deleteMany", "create"}

\* C32: once guards of both tenants are installed, a call made for tenant t
\* on a tenant-scoped model, with an action the guard rewrites, reaches the
\* query engine with the tenantId of t in its filter (in its payload, for
\* create), in whichever order the guards were installed.
C32_GuardsDoNotCross ==
    [][(/\ ReachesEngine
        /\ \A t \in Tenants : \E i \in DOMAIN middlewares : middlewares[i] = t
        /\ Val(params).model \in tenantModels
        /\ Val(params).action \in GuardedActions)
          => LET args == Val(Val(params').args)
             IN  IF Val(params).action = "create"
                 THEN Val(args.data).tenantId = Val(params).forTenant
                 ELSE Val(args.where).tenantId = Val(params).forTenant]_vars


\* a successful answer of one of the handlers named, which sets the cookie
IssuedBy(ops) ==
    /\ procs[1].pc = "idle"
    /\ procs'[1].pc = "done"
    /\ procs'[1].op \in ops
    /\ procs'[1].status \in {200, 201}
    /\ ~IsNone(cookies'[1])
    /\ Val(cookies'[1]).tenantId # Null

MembershipOf(token) ==
    {l \in tenantUsers' : l.userId = token.userId /\ l.tenantId = token.tenantId}

TokenCarriesMembership(token) ==
    /\ \E l \in MembershipOf(token) : l.role = token.role
    /\ \A l \in MembershipOf(token) :
           l.role \in Admins =>
               ~Failed(requireTenantRole(authMiddleware(token), Admins))

\* C33: whenever registerBusiness, login or switchTenant issues an access
\* token with a non-null tenantId T, the token's user is a member of T and the
\* token's role is that user's TenantUser role in T, so that an OWNER or ADMIN
\* of the tenant who logs in passes the OWNER/ADMIN role check of the service
\* and staff operations.
C33_TokenCarriesMembership ==
    [][IssuedBy({"registerBusiness", "login", "switchTenant"})
           => TokenCarriesMembership(Val(cookies'[1]))]_vars

ServiceOps == {"createService", "listServices", "getService", "deleteService"}
StaffOps == {"createStaff", "listStaff", "getStaff", "deleteStaff"}

\* the request object the controller of the answered operation ran with
RoutedReq(token) ==
    IF procs'[1].op \in ServiceOps THEN serviceRoute(token) ELSE staffRoute(token)

ControllerAnswered ==
    /\ procs[1].pc = "idle"
    /\ procs'[1].pc = "done"
    /\ procs'[1].op \in ServiceOps \cup StaffOps
    /\ ~IsNone(cookies[1])

\* C34: every service and staff controller runs only with a non-null
\* req.tenantId equal to the tenantId of the access token; a request whose
\* token resolves no tenant is answered 400 'Tenant not resolved' by
\* tenantMiddleware, reaches no controller and leaves the tables alone.
C34_TenantResolved ==
    [][ControllerAnswered =>
           LET token == Val(cookies[1])
           IN  IF Failed(tenantMiddleware(authMiddleware(token)))
               THEN /\ procs'[1].status = 400
                    /\ procs'[1].msg = "Tenant not resolved"
                    /\ UNCHANGED <<services, staff>>
               ELSE RoutedReq(token).tenantId = token.tenantId]_vars

====
